---- MODULE Spec2Model ----
(***************************************************************************)
(* Assessment engines of the MiniVIE limb controller                       *)
(* (python/minivie/pattern_rec/assessment.py) together with the pause flag *)
(* of the scenario (python/minivie/scenarios/__init__.py).                 *)
(*                                                                         *)
(* Both engines run as asyncio tasks on one event loop.  A task executes   *)
(* without interruption from one `await asyncio.sleep` to the next, so     *)
(* the model keeps the task that currently holds the loop in `running`;    *)
(* command handlers and timer wake-ups fire only while the loop is free.   *)
(*                                                                         *)
(* Time is counted in poll intervals (ticks): one tick is the dt of the    *)
(* engine concerned (0.1 s motion tester, 0.2 s target achievement).  A    *)
(* sleep of dt lets the wall clock advance by 1..MaxDelay ticks.  A time   *)
(* series stored by the target-achievement engine is kept by its length.   *)
(***************************************************************************)
EXTENDS Integers, Sequences, FiniteSets, TLC

\* ------------------------------------------------------------------ bounds
MaxTasks == 2
\* tasks each engine may create in one behaviour
MaxDelay == 2
\* ticks the wall clock may advance during one sleep of dt
MaxSeqPolls == 2
\* polls a target-achievement trial may spend waiting for the first movement

\* --------------------------------------------------------------- constants
NoneTask == 0
\* self.task = None
NoMovement == "No Movement"
NoDecision == "None"
\* output['decision'] before any classification

\* TrainingData.motion_names, restricted to the classes the model trains
motion_names ==
  << "No Movement", "Elbow Flexion", "Elbow Extension",
     "Wrist Rotate In", "Wrist Rotate Out",
     "Wrist Adduction", "Wrist Abduction",
     "Hand Open", "Spherical Grasp" >>

MotionIndex(name) == CHOOSE k \in 1..Len(motion_names) : motion_names[k] = name

\* [all_class_names[i] for i, e in enumerate(totals) if e != 0] minus 'No Movement'
RECURSIVE TrainedFrom(_, _)
TrainedFrom(k, tr) ==
  IF k > Len(motion_names) THEN << >>
  ELSE IF motion_names[k] \in tr /\ motion_names[k] # NoMovement
       THEN << motion_names[k] >> \o TrainedFrom(k + 1, tr)
       ELSE TrainedFrom(k + 1, tr)

\* a list that keeps 'No Movement'
trained_classes_WithNeutral(tr) ==
  (IF NoMovement \in tr THEN << NoMovement >> ELSE << >>) \o TrainedFrom(1, tr)

trained_classes(tr) == TrainedFrom(1, tr)

\* decisions the classifier can report: 'None' or a trained class
Decisions(tr) == {NoDecision} \cup tr

VARIABLES
  pause,      \* Scenario.__pause
  running,    \* task holding the event loop: <<engine, id>> or NoRun
  trained,    \* classes with training data (TrainingData.get_totals() # 0)
  menu,       \* command payloads the user interface sends
  mt,         \* MotionTester fields
  mtTasks,    \* frames of the MotionTester tasks, by task id
  mtFiles,    \* results files written by MotionTester.save_results
  tac,        \* TargetAchievementControl fields
  tacTasks,   \* frames of the TargetAchievementControl tasks, by task id
  tacFiles,   \* results files written by TargetAchievementControl.save_results
  sel,        \* one target selection of assess_joint, taken on its own
  call,       \* one call of a function of the program, taken on its own
  nfu,        \* the limb sink (NfuUdp / NfuSink) and its transport
  vie         \* the control loop: Scenario gains, Plant, last output and frame

NoRun == << "none", 0 >>

tacVars == << tac, tacTasks, tacFiles >>

mtVars == << mt, mtTasks, mtFiles >>

vars == << pause, running, trained, menu, mt, mtTasks, mtFiles, tac, tacTasks,
          tacFiles, sel, call, nfu, vie >>

\* no call in progress; no sink constructed
NoCall == [ fn |-> "none" ]

NoSink == [ kind |-> "none" ]

\* no control loop set up
NoScenario == [ loop |-> "none" ]

\* ---------------------------------------------------------- MotionTester
\* the frame of a task that does not exist, or whose coroutine is gone
MtNoFrame ==
  [ state |-> "none", pc |-> "none", reps |-> 0, classes |-> << >>,
    i_rep |-> 0, i |-> 0, class_name |-> "", entered_no_movement |-> FALSE,
    seen |-> 0, timeout |-> 0, max_correct |-> 0, move_complete |-> FALSE,
    num_correct |-> 0, num_wrong |-> 0, time_elapsed |-> 0, clock |-> 0 ]

MtDead(st) == [ MtNoFrame EXCEPT !.state = st ]

\* MotionTester.__init__
MtInit ==
  [ task |-> NoneTask, repetitions |-> 3, max_correct |-> 10, timeout |-> 50,
    class_id_to_test |-> << >>, data |-> << >> ]

\* a reset that keeps the trial records
MtReset_KeepsData(m) == [ m EXCEPT !.class_id_to_test = << >> ]

\* MotionTester.reset
MtReset(m) == [ m EXCEPT !.class_id_to_test = << >>, !.data = << >> ]

MtCreated == Cardinality({ id \in 1..MaxTasks : mtTasks[id].state # "none" })

LoopFree == running = NoRun

\* MotionTester.clear_task
MtClearTask(m) == [ m EXCEPT !.task = NoneTask ]

\* MotionTester.cancel_task: task.cancel() unwinds a suspended coroutine
\* with CancelledError (run_assessment re-raises it); a finished task is
\* left as it is.  Afterwards clear_task().
MtCancelFrame_HandleOnly(f) == f

MtCancelFrame(f) == IF f.state = "pending" THEN MtDead("cancelled") ELSE f

MtCancelTask(m, tasks) ==
  << MtClearTask(m), [ tasks EXCEPT ![m.task] = MtCancelFrame(@) ] >>

\* MotionTester.command_string, 'Cmd:StartMotionTester-<r>-<t>-<m>'
MtStartCommand(p) ==
  /\ mt.task = NoneTask => MtCreated < menu.runs
  /\ LET parsed == [ mt EXCEPT !.repetitions = p[1], !.timeout = p[2],
                               !.max_correct = p[3] ]
         id == MtCreated + 1
     IN IF parsed.task # NoneTask
        THEN /\ mt' = parsed
             /\ UNCHANGED mtTasks
        ELSE /\ mt' = [ parsed EXCEPT !.task = id ]
             /\ mtTasks' = [ mtTasks EXCEPT ![id] =
                               [ MtNoFrame EXCEPT !.state = "pending",
                                                  !.pc = "start" ] ]

\* MotionTester.command_string, 'Cmd:StopMotionTester'
MtStopCommand ==
  IF mt.task # NoneTask
  THEN /\ mt' = MtCancelTask(mt, mtTasks)[1]
       /\ mtTasks' = MtCancelTask(mt, mtTasks)[2]
  ELSE UNCHANGED << mt, mtTasks >>

\* The engines call pause('All', state) on the scenario they are given.
\* The Scenario class of scenarios/__init__.py has the toggle without
\* arguments only (PauseToggle below, used by Cmd:Pause), so the form with
\* a state is taken from the specification: it sets the flag to `state`.
PauseSet(state) == state

\* start_assessment of the motion tester: pause limb during test
HoldoutPause_Skipped(p) == p

HoldoutPause(p) == PauseSet(TRUE)

\* Scenario.pause(): toggles the flag
PauseToggle(p) == IF p THEN FALSE ELSE TRUE

MtRuns(id) == running = << "mt", id >> /\ mtTasks[id].state = "pending"

\* start_assessment up to the trial loops
MtStart(id) ==
  /\ LoopFree
  /\ mtTasks[id].state = "pending" /\ mtTasks[id].pc = "start"
  /\ mt' = MtReset(mt)
  /\ pause' = HoldoutPause(pause)
  /\ mtTasks' = [ mtTasks EXCEPT ![id] =
                    [ @ EXCEPT !.pc = "loop", !.reps = mt.repetitions,
                               !.classes = trained_classes(trained),
                               !.i_rep = 0, !.i = 0 ] ]
  /\ running' = << "mt", id >>
  /\ UNCHANGED << trained, menu, sel, call, nfu, vie, mtFiles, tacVars >>

\* for i_rep in range(self.repetitions): for i, i_class in enumerate(...)
MtLoop(id) ==
  /\ MtRuns(id) /\ mtTasks[id].pc = "loop"
  /\ LET f == mtTasks[id] IN
     IF f.i_rep >= f.reps \/ Len(f.classes) = 0
     THEN /\ mtTasks' = [ mtTasks EXCEPT ![id].pc = "save" ]
          /\ UNCHANGED mt
     ELSE IF f.i >= Len(f.classes)
     THEN /\ mtTasks' = [ mtTasks EXCEPT ![id].i_rep = f.i_rep + 1,
                                         ![id].i = 0 ]
          /\ UNCHANGED mt
     ELSE /\ mt' = [ mt EXCEPT
                       !.class_id_to_test =
                          Append(@, MotionIndex(f.classes[f.i + 1])),
                       !.data = Append(@, [ targetClass |-> << >>,
                                            classDecision |-> << >> ]) ]
          /\ mtTasks' = [ mtTasks EXCEPT ![id] =
                            [ @ EXCEPT !.pc = "await_poll",
                                       !.class_name = f.classes[f.i + 1],
                                       !.entered_no_movement = FALSE,
                                       !.seen = 0 ] ]
  /\ UNCHANGED << pause, running, trained, menu, sel, call, nfu, vie, mtFiles, tacVars >>

\* what a run of polls has shown of the decision: 0 nothing, 1 'No
\* Movement', 2 afterwards a decision other than 'No Movement' and 'None'
SeenNext(seen, d) ==
  IF d = NoMovement THEN (IF seen = 0 THEN 1 ELSE seen)
  ELSE IF d # NoDecision /\ seen >= 1 THEN 2 ELSE seen

\* the test that ends the wait for a first movement
StartsTracking_AnyMovement(d, entered) == d # NoMovement /\ d # NoDecision

StartsTracking(d, entered) == d # NoMovement /\ d # NoDecision /\ entered

\* assess_class: one pass of the `while True` loop that waits for neutral
MtAwaitPoll(id) ==
  /\ MtRuns(id) /\ mtTasks[id].pc = "await_poll"
  /\ \E d \in Decisions(trained) :
       LET f == mtTasks[id]
           entered == f.entered_no_movement \/ d = NoMovement
       IN IF StartsTracking(d, entered)
          THEN /\ mtTasks' = [ mtTasks EXCEPT ![id] =
                   [ @ EXCEPT !.pc = "track_check",
                              !.entered_no_movement = entered,
                              !.seen = SeenNext(f.seen, d),
                              !.timeout = mt.timeout,
                              !.max_correct = mt.max_correct,
                              !.move_complete = FALSE,
                              !.num_correct = 0, !.num_wrong = 0,
                              !.time_elapsed = 0, !.clock = 0 ] ]
               /\ UNCHANGED running
          ELSE /\ mtTasks' = [ mtTasks EXCEPT ![id] =
                   [ @ EXCEPT !.pc = "await_sleep",
                              !.entered_no_movement = entered,
                              !.seen = SeenNext(f.seen, d) ] ]
               /\ running' = NoRun
  /\ UNCHANGED << pause, trained, menu, sel, call, nfu, vie, mt, mtFiles, tacVars >>

\* asyncio.sleep(0.1) of the waiting loop returns
MtAwaitWake(id) ==
  /\ LoopFree
  /\ mtTasks[id].state = "pending" /\ mtTasks[id].pc = "await_sleep"
  /\ mtTasks' = [ mtTasks EXCEPT ![id].pc = "await_poll" ]
  /\ running' = << "mt", id >>
  /\ UNCHANGED << pause, trained, menu, sel, call, nfu, vie, mt, mtFiles, tacVars >>

\* a loop that only completion ends
MtKeepsPolling_NoTimeout(f) == ~f.move_complete

\* the condition of `while not move_complete and (time_elapsed < timeout)`
MtKeepsPolling(f) == ~f.move_complete /\ f.time_elapsed < f.timeout

\* assess_class: the head of the tracking loop
MtTrackCheck(id) ==
  /\ MtRuns(id) /\ mtTasks[id].pc = "track_check"
  /\ mtTasks' = [ mtTasks EXCEPT ![id].pc =
                    IF MtKeepsPolling(mtTasks[id]) THEN "track_poll"
                    ELSE "trial_end" ]
  /\ UNCHANGED << pause, running, trained, menu, sel, call, nfu, vie, mt, mtFiles, tacVars >>

\* an add_data that stores nothing for a poll without a decision
MtAddData_SkipsNone(m, class_name_to_test, current_class) ==
  IF current_class = NoDecision THEN m
  ELSE LET n == Len(m.data)
       IN [ m EXCEPT !.data[n].targetClass = Append(@, class_name_to_test),
                     !.data[n].classDecision = Append(@, MotionIndex(current_class)) ]

\* MotionTester.add_data: 'None' is stored as 'No Movement'; the decision
\* is stored as its index in motion_names
MtAddData(m, class_name_to_test, current_class) ==
  LET cls == IF current_class = NoDecision THEN NoMovement ELSE current_class
      n == Len(m.data)
  IN [ m EXCEPT !.data[n].targetClass = Append(@, class_name_to_test),
                !.data[n].classDecision = Append(@, MotionIndex(cls)) ]

\* the completion test of one poll
MtReached_Strictly(num_correct, max_correct) == num_correct > max_correct

MtReached(num_correct, max_correct) == num_correct >= max_correct

\* assess_class: one poll of the tracking loop, up to its sleep
MtTrackPoll(id) ==
  /\ MtRuns(id) /\ mtTasks[id].pc = "track_poll"
  /\ \E d \in Decisions(trained) :
       LET f == mtTasks[id]
           nc == IF d = f.class_name THEN f.num_correct + 1 ELSE f.num_correct
           nw == IF d = f.class_name THEN f.num_wrong ELSE f.num_wrong + 1
       IN /\ mt' = MtAddData(mt, f.class_name, d)
          /\ mtTasks' = [ mtTasks EXCEPT ![id] =
                [ @ EXCEPT !.pc = "track_sleep",
                           !.num_correct = nc, !.num_wrong = nw,
                           !.move_complete = MtReached(nc, f.max_correct) ] ]
  /\ running' = NoRun
  /\ UNCHANGED << pause, trained, menu, sel, call, nfu, vie, mtFiles, tacVars >>

\* asyncio.sleep(dt) of the tracking loop returns;
\* time_elapsed = time.time() - time_begin
MtTrackWake(id) ==
  /\ LoopFree
  /\ mtTasks[id].state = "pending" /\ mtTasks[id].pc = "track_sleep"
  /\ \E delay \in 1..MaxDelay :
       mtTasks' = [ mtTasks EXCEPT ![id] =
          [ @ EXCEPT !.pc = "track_check",
                     !.clock = @ + delay,
                     !.time_elapsed = mtTasks[id].clock + delay ] ]
  /\ running' = << "mt", id >>
  /\ UNCHANGED << pause, trained, menu, sel, call, nfu, vie, mt, mtFiles, tacVars >>

\* assess_class returns move_complete and its locals are gone;
\* start_assessment reports the result and goes on with the next class
MtTrialEnd(id) ==
  /\ MtRuns(id) /\ mtTasks[id].pc = "trial_end"
  /\ LET f == mtTasks[id] IN
     mtTasks' = [ mtTasks EXCEPT ![id] =
        [ MtNoFrame EXCEPT !.state = f.state, !.pc = "loop", !.reps = f.reps,
                           !.classes = f.classes, !.i_rep = f.i_rep,
                           !.i = f.i + 1 ] ]
  /\ UNCHANGED << pause, running, trained, menu, sel, call, nfu, vie, mt, mtFiles, tacVars >>

\* MotionTester.save_results: the file holds class_id_to_test, max_correct,
\* timeout and one group per trial record (kept by their number); the
\* stored data is cleared after writing
MtSaveResults(m) ==
  [ ClassIdToTest |-> m.class_id_to_test, MaxCorrect |-> m.max_correct,
    Timeout |-> m.timeout, Data |-> Len(m.data) ]

\* the end of start_assessment and of run_assessment: save, unpause,
\* clear_task; h5py may fail to write, and nothing catches that error
MtSave(id) ==
  /\ MtRuns(id) /\ mtTasks[id].pc = "save"
  /\ \E ok \in BOOLEAN :
       IF ok
       THEN /\ mtFiles' = Append(mtFiles, MtSaveResults(mt))
            /\ mt' = MtClearTask(MtReset(mt))
            /\ pause' = PauseSet(FALSE)
            /\ mtTasks' = [ mtTasks EXCEPT ![id] = MtDead("done") ]
       ELSE /\ mtTasks' = [ mtTasks EXCEPT ![id] = MtDead("failed") ]
            /\ UNCHANGED << mt, pause, mtFiles >>
  /\ running' = NoRun
  /\ UNCHANGED << trained, menu, sel, call, nfu, vie, tacVars >>

MtStep(id) ==
  \/ MtStart(id)
  \/ MtLoop(id)
  \/ MtAwaitPoll(id)
  \/ MtAwaitWake(id)
  \/ MtTrackCheck(id)
  \/ MtTrackPoll(id)
  \/ MtTrackWake(id)
  \/ MtTrialEnd(id)
  \/ MtSave(id)

\* ----------------------------------------------- TargetAchievementControl
NoneName == "None"
\* a JointId or GraspId of None

\* the default branch of class_map with the direction of 'Hand Open'
AssumedGrasp_Opening(class_name) ==
  [ IsGrasp |-> TRUE, JointId |-> NoneName, Direction |-> -1, GraspId |-> class_name ]

\* `else` of class_map: assume this is a grasp in the ROC table
AssumedGrasp(class_name) ==
  [ IsGrasp |-> TRUE, JointId |-> NoneName, Direction |-> 1, GraspId |-> class_name ]

\* class_map: IsGrasp, JointId (by name), Direction, GraspId of a class
class_map(class_name) ==
  CASE class_name = "No Movement" ->
         [ IsGrasp |-> FALSE, JointId |-> NoneName, Direction |-> 0, GraspId |-> NoneName ]
    [] class_name = "Shoulder Flexion" ->
         [ IsGrasp |-> FALSE, JointId |-> "SHOULDER_FE", Direction |-> 1, GraspId |-> NoneName ]
    [] class_name = "Shoulder Extension" ->
         [ IsGrasp |-> FALSE, JointId |-> "SHOULDER_FE", Direction |-> -1, GraspId |-> NoneName ]
    [] class_name = "Shoulder Adduction" ->
         [ IsGrasp |-> FALSE, JointId |-> "SHOULDER_AB_AD", Direction |-> 1, GraspId |-> NoneName ]
    [] class_name = "Shoulder Abduction" ->
         [ IsGrasp |-> FALSE, JointId |-> "SHOULDER_AB_AD", Direction |-> -1, GraspId |-> NoneName ]
    [] class_name = "Humeral Internal Rotation" ->
         [ IsGrasp |-> FALSE, JointId |-> "HUMERAL_ROT", Direction |-> 1, GraspId |-> NoneName ]
    [] class_name = "Humeral External Rotation" ->
         [ IsGrasp |-> FALSE, JointId |-> "HUMERAL_ROT", Direction |-> -1, GraspId |-> NoneName ]
    [] class_name = "Elbow Flexion" ->
         [ IsGrasp |-> FALSE, JointId |-> "ELBOW", Direction |-> 1, GraspId |-> NoneName ]
    [] class_name = "Elbow Extension" ->
         [ IsGrasp |-> FALSE, JointId |-> "ELBOW", Direction |-> -1, GraspId |-> NoneName ]
    [] class_name = "Wrist Rotate In" ->
         [ IsGrasp |-> FALSE, JointId |-> "WRIST_ROT", Direction |-> 1, GraspId |-> NoneName ]
    [] class_name = "Wrist Rotate Out" ->
         [ IsGrasp |-> FALSE, JointId |-> "WRIST_ROT", Direction |-> -1, GraspId |-> NoneName ]
    [] class_name = "Wrist Adduction" ->
         [ IsGrasp |-> FALSE, JointId |-> "WRIST_AB_AD", Direction |-> 1, GraspId |-> NoneName ]
    [] class_name = "Wrist Abduction" ->
         [ IsGrasp |-> FALSE, JointId |-> "WRIST_AB_AD", Direction |-> -1, GraspId |-> NoneName ]
    [] class_name = "Wrist Flex In" ->
         [ IsGrasp |-> FALSE, JointId |-> "WRIST_FE", Direction |-> 1, GraspId |-> NoneName ]
    [] class_name = "Wrist Extend Out" ->
         [ IsGrasp |-> FALSE, JointId |-> "WRIST_FE", Direction |-> -1, GraspId |-> NoneName ]
    [] class_name = "Hand Open" ->
         [ IsGrasp |-> TRUE, JointId |-> NoneName, Direction |-> -1, GraspId |-> NoneName ]
    [] OTHER -> AssumedGrasp(class_name)

\* Plant.lower_limit / Plant.upper_limit of the assessed joints, in degrees
lower_limit == [ ELBOW |-> 0, WRIST_ROT |-> -1, WRIST_AB_AD |-> -1 ]

upper_limit == [ ELBOW |-> 4, WRIST_ROT |-> 1, WRIST_AB_AD |-> 1 ]

GraspLower == 0
GraspUpper == 100

SeqCount(seq, x) == Cardinality({ k \in 1..Len(seq) : seq[k] = x })

SeqHas(seq, x) == \E k \in 1..Len(seq) : seq[k] = x

\* all_joint_ids / all_grasp_ids of start_assessment
all_joint_ids(classes) ==
  [ k \in 1..Len(classes) |-> class_map(classes[k]).JointId ]

all_grasp_ids(classes) ==
  [ k \in 1..Len(classes) |-> class_map(classes[k]).GraspId ]

\* joints of which both directions are trained: Counter(all_joint_ids),
\* count > 1 and joint is not None, in order of first occurrence
RECURSIVE JointsFrom(_, _)
JointsFrom(ids, k) ==
  IF k > Len(ids) THEN << >>
  ELSE IF /\ ids[k] # NoneName
          /\ SeqCount(ids, ids[k]) > 1
          /\ \A j \in 1..(k - 1) : ids[j] # ids[k]
       THEN << ids[k] >> \o JointsFrom(ids, k + 1)
       ELSE JointsFrom(ids, k + 1)

trained_joints(classes) == JointsFrom(all_joint_ids(classes), 1)

\* every trained grasp, provided 'Hand Open' is trained
trained_grasps(classes) ==
  LET IsId(x) == x # NoneName
  IN IF SeqHas(classes, "Hand Open")
     THEN SelectSeq(all_grasp_ids(classes), IsId) ELSE << >>

Repeat(x, n) == [ k \in 1..n |-> x ]

Abs(x) == IF x < 0 THEN -x ELSE x

TacNoFrame ==
  [ state |-> "none", pc |-> "none", must_cancel |-> FALSE, reps |-> 0,
    joints_to_assess |-> << >>, is_grasp |-> << >>, i_rep |-> 0, i |-> 0,
    ret |-> "none", joint_name_list |-> << >>, is_grasp_list |-> << >>,
    dwell_time |-> 0, timeout |-> 0, move_complete |-> FALSE,
    time_elapsed |-> 0, time_in_target |-> 0, joint_in_target |-> << >>,
    start_sequence |-> FALSE, entered_no_movement |-> FALSE, seen |-> 0,
    clock |-> 0, fallback |-> << >>, tracked |-> 0 ]

TacDead(st) == [ TacNoFrame EXCEPT !.state = st ]

\* TargetAchievementControl.__init__ (the storage lists start empty; a
\* completion time that was never set is shown as the sentinel)
TacInit ==
  [ task |-> NoneTask, condition |-> 0, assessment_type |-> "TAC1",
    filename |-> "TAC1_LOG",
    target_error_degree |-> 5, target_error_percent |-> 5,
    repetitions |-> 2, timeout |-> 225, dwell_time |-> 10,
    target_joint |-> << >>, target_position |-> << >>,
    target_error |-> << >>, lower_limit |-> << >>, upper_limit |-> << >>,
    completion_time |-> -1, nsamples |-> 0, data |-> << >> ]

\* TargetAchievementControl.reset
TacReset(t) ==
  [ t EXCEPT !.target_joint = << >>, !.target_position = << >>,
             !.target_error = << >>, !.lower_limit = << >>,
             !.upper_limit = << >>, !.completion_time = -1,
             !.nsamples = 0, !.data = << >> ]

TacCreated == Cardinality({ id \in 1..MaxTasks : tacTasks[id].state # "none" })

\* TargetAchievementControl.clear_task
TacClearTask(t) == [ t EXCEPT !.task = NoneTask ]

\* task.cancel(): a suspended coroutine is unwound with CancelledError; the
\* coroutine that holds the loop is cancelled at its next await
TacCancelFrame(f, isRunning) ==
  IF f.state # "pending" THEN f
  ELSE IF isRunning THEN [ f EXCEPT !.must_cancel = TRUE ]
  ELSE TacDead("cancelled")

\* TargetAchievementControl.cancel_task
TacCancelTask(t, tasks) ==
  << TacClearTask(t),
     [ tasks EXCEPT ![t.task] = TacCancelFrame(@, running = << "tac", t.task >>) ] >>

\* TargetAchievementControl.command_string, 'Cmd:StartTAC1-...' (c = 1)
\* and 'Cmd:StartTAC3-...' (c = 3); p = <<repetitions, timeout, dwell
\* time, error in degrees, error in percent>>
TacStartCommand(c, p) ==
  /\ tac.task = NoneTask => TacCreated < menu.runs
  /\ LET parsed == [ tac EXCEPT
                       !.assessment_type = IF c = 1 THEN "TAC1" ELSE "TAC3",
                       !.condition = c,
                       !.repetitions = p[1], !.timeout = p[2],
                       !.dwell_time = p[3], !.target_error_degree = p[4],
                       !.target_error_percent = p[5] ]
         id == TacCreated + 1
     IN IF parsed.task = NoneTask
        THEN /\ tac' = [ parsed EXCEPT !.task = id ]
             /\ tacTasks' = [ tacTasks EXCEPT ![id] =
                                [ TacNoFrame EXCEPT !.state = "pending",
                                                    !.pc = "start" ] ]
        ELSE /\ tac' = parsed
             /\ UNCHANGED tacTasks

\* TargetAchievementControl.command_string, 'Cmd:StopTAC'
TacStopCommand ==
  IF tac.task # NoneTask
  THEN /\ tac' = TacCancelTask(tac, tacTasks)[1]
       /\ tacTasks' = TacCancelTask(tac, tacTasks)[2]
  ELSE UNCHANGED << tac, tacTasks >>

TacRuns(id) == running = << "tac", id >> /\ tacTasks[id].state = "pending"

\* start_assessment, TAC3: elbow, the first trained wrist joint, the first
\* trained grasp; `missing` counts the calls of cancel_task
Tac3Plan(tj, tg) ==
  LET elbow == SeqHas(tj, "ELBOW")
      wrist == IF SeqHas(tj, "WRIST_ROT") THEN << "WRIST_ROT" >>
               ELSE IF SeqHas(tj, "WRIST_AB") THEN << "WRIST_AB_AD" >>
               ELSE IF SeqHas(tj, "WRIST_FE") THEN << "WRIST_FE" >>
               ELSE << >>
      grasp == IF Len(tg) > 0 THEN << tg[1] >> ELSE << >>
  IN [ joints |-> (IF elbow THEN << "ELBOW" >> ELSE << >>) \o wrist \o grasp,
       is_grasp |-> Repeat(FALSE, (IF elbow THEN 1 ELSE 0) + Len(wrist))
                      \o Repeat(TRUE, Len(grasp)),
       missing |-> (IF elbow THEN 0 ELSE 1) + (1 - Len(wrist))
                     + (1 - Len(grasp)) ]

\* start_assessment up to the trial loop
TacStart(id) ==
  /\ LoopFree
  /\ tacTasks[id].state = "pending" /\ tacTasks[id].pc = "start"
  /\ LET cs == trained_classes(trained)
         tj == trained_joints(cs)
         tg == trained_grasps(cs)
         plan == IF tac.condition = 1
                 THEN [ joints |-> tj \o tg,
                        is_grasp |-> Repeat(FALSE, Len(tj)) \o Repeat(TRUE, Len(tg)),
                        missing |-> 0 ]
                 ELSE IF tac.condition = 3 THEN Tac3Plan(tj, tg)
                 ELSE [ joints |-> << >>, is_grasp |-> << >>, missing |-> 0 ]
         named == [ tac EXCEPT !.filename = IF tac.assessment_type = "TAC1"
                                            THEN "TAC1_LOG" ELSE "TAC3_LOG" ]
         begun == [ tacTasks EXCEPT ![id] =
                      [ @ EXCEPT !.pc = "loop", !.reps = tac.repetitions,
                                 !.joints_to_assess = plan.joints,
                                 !.is_grasp = plan.is_grasp,
                                 !.i_rep = 0, !.i = 0 ] ]
     IN IF plan.missing = 0
        THEN /\ tac' = named
             /\ tacTasks' = begun
             /\ running' = << "tac", id >>
        ELSE IF plan.missing = 1
        THEN \* cancel_task() on the task that is running
             /\ tac' = TacClearTask(named)
             /\ tacTasks' = [ begun EXCEPT ![named.task] =
                                TacCancelFrame(@, named.task = id) ]
             /\ running' = << "tac", id >>
        ELSE \* the second cancel_task() finds self.task = None
             /\ tac' = TacClearTask(named)
             /\ tacTasks' = [ tacTasks EXCEPT ![id] = TacDead("failed") ]
             /\ running' = NoRun
  /\ UNCHANGED << pause, trained, menu, sel, call, nfu, vie, mtVars, tacFiles >>

\* the three tests of a drawn target: far enough from the current position,
\* clear of the upper edge, clear of the lower edge
Condition1(cur, t, lo, hi) == 4 * Abs(cur - t) > hi - lo

Condition2_Touching(t, hi, err) == Abs(t - hi) >= err

Condition2(t, hi, err) == Abs(t - hi) > err

Condition3(t, lo, err) == Abs(t - lo) > err

AcceptsTarget(cur, t, lo, hi, err) ==
  Condition1(cur, t, lo, hi) /\ Condition2(t, hi, err) /\ Condition3(t, lo, err)

\* assess_joint, the `while True` loop around random.randint(lower, upper):
\* the pairs <<target, timed out>> the loop can end with.  It ends on a
\* draw that passes the three tests, or on any draw once 5 s have gone by;
\* the 5 s go by when no draw can pass, or when the process is stalled.
DrawOutcomes(cur, lo, hi, err, stall) ==
  LET passing == { t \in lo..hi : AcceptsTarget(cur, t, lo, hi, err) }
  IN { << t, FALSE >> : t \in passing }
       \cup { << t, TRUE >> :
                t \in IF stall \/ passing = {} THEN lo..hi ELSE {} }

AxisLower(name, grasp) == IF grasp THEN GraspLower ELSE lower_limit[name]

AxisUpper(name, grasp) == IF grasp THEN GraspUpper ELSE upper_limit[name]

\* the outcomes of the selection for one axis, over the positions the
\* Plant can be in
AxisOutcomes(name, grasp, err, stall) ==
  UNION { DrawOutcomes(cur, AxisLower(name, grasp), AxisUpper(name, grasp),
                       err, stall) :
            cur \in AxisLower(name, grasp)..AxisUpper(name, grasp) }

\* sequences whose k-th member is taken from S[k]
RECURSIVE Product(_, _)
Product(S, k) ==
  IF k = 0 THEN { << >> }
  ELSE { Append(sq, x) : sq \in Product(S, k - 1), x \in S[k] }

\* for i_rep in range(self.repetitions)
TacLoop(id) ==
  /\ TacRuns(id) /\ tacTasks[id].pc = "loop"
  /\ LET f == tacTasks[id] IN
     tacTasks' = [ tacTasks EXCEPT ![id] =
        IF f.i_rep >= f.reps THEN [ f EXCEPT !.pc = "save" ]
        ELSE IF tac.condition = 1 THEN [ f EXCEPT !.pc = "tac1", !.i = 0 ]
        ELSE [ f EXCEPT !.pc = "tac3" ] ]
  /\ UNCHANGED << pause, running, trained, menu, sel, call, nfu, vie, mtVars, tac, tacFiles >>

\* TAC1: for i, joint in enumerate(joints_to_assess): assess_joint([joint])
TacLoop1(id) ==
  /\ TacRuns(id) /\ tacTasks[id].pc = "tac1"
  /\ LET f == tacTasks[id] IN
     tacTasks' = [ tacTasks EXCEPT ![id] =
        IF f.i < Len(f.joints_to_assess)
        THEN [ f EXCEPT !.pc = "select", !.ret = "tac1",
                        !.joint_name_list = << f.joints_to_assess[f.i + 1] >>,
                        !.is_grasp_list = << f.is_grasp[f.i + 1] >> ]
        ELSE [ f EXCEPT !.pc = "tac3" ] ]
  /\ UNCHANGED << pause, running, trained, menu, sel, call, nfu, vie, mtVars, tac, tacFiles >>

\* TAC3: if self._condition == 3: assess_joint(joints_to_assess, is_grasp)
TacLoop3(id) ==
  /\ TacRuns(id) /\ tacTasks[id].pc = "tac3"
  /\ LET f == tacTasks[id] IN
     tacTasks' = [ tacTasks EXCEPT ![id] =
        IF tac.condition = 3
        THEN [ f EXCEPT !.pc = "select", !.ret = "rep_end",
                        !.joint_name_list = f.joints_to_assess,
                        !.is_grasp_list = f.is_grasp ]
        ELSE [ f EXCEPT !.pc = "loop", !.i_rep = f.i_rep + 1 ] ]
  /\ UNCHANGED << pause, running, trained, menu, sel, call, nfu, vie, mtVars, tac, tacFiles >>

\* update_gui_joint_target / update_gui_joint index num_dof = _condition
\* entries of lists that hold one entry per assessed axis
GuiIndexError(num_dof, n) == num_dof > n

\* assess_joint up to its polling loop: parameters, target selection,
\* storage and the setup message
TacSelect(id) ==
  /\ TacRuns(id) /\ tacTasks[id].pc = "select"
  /\ LET f == tacTasks[id]
         n == Len(f.joint_name_list)
         err == [ k \in 1..n |-> IF f.is_grasp_list[k]
                                 THEN tac.target_error_percent
                                 ELSE tac.target_error_degree ]
         lo == [ k \in 1..n |-> AxisLower(f.joint_name_list[k], f.is_grasp_list[k]) ]
         hi == [ k \in 1..n |-> AxisUpper(f.joint_name_list[k], f.is_grasp_list[k]) ]
         out == [ k \in 1..n |-> AxisOutcomes(f.joint_name_list[k],
                                   f.is_grasp_list[k], err[k], menu.stall) ]
     IN \E chosen \in Product(out, n) :
          /\ tac' = [ tac EXCEPT
                        !.target_joint = f.joint_name_list,
                        !.target_position = [ k \in 1..n |-> chosen[k][1] ],
                        !.target_error = err,
                        !.lower_limit = lo, !.upper_limit = hi,
                        !.nsamples = 0, !.completion_time = -1 ]
          /\ IF GuiIndexError(tac.condition, n)
             THEN /\ tacTasks' = [ tacTasks EXCEPT ![id] = TacDead("failed") ]
                  /\ running' = NoRun
             ELSE /\ tacTasks' = [ tacTasks EXCEPT ![id] =
                      [ f EXCEPT !.pc = "poll_check",
                                 !.dwell_time = tac.dwell_time,
                                 !.timeout = tac.timeout,
                                 !.move_complete = FALSE,
                                 !.time_elapsed = 0, !.time_in_target = 0,
                                 !.joint_in_target = Repeat(FALSE, n),
                                 !.start_sequence = TRUE,
                                 !.entered_no_movement = FALSE,
                                 !.seen = 0, !.clock = 0,
                                 !.fallback = [ k \in 1..n |-> chosen[k][2] ] ] ]
                  /\ UNCHANGED running
  /\ UNCHANGED << pause, trained, menu, sel, call, nfu, vie, mtVars, tacFiles >>

\* the head of `while not move_complete and (time_elapsed < timeout)`
TacKeepsPolling(f) == ~f.move_complete /\ f.time_elapsed < f.timeout

TacPollCheck(id) ==
  /\ TacRuns(id) /\ tacTasks[id].pc = "poll_check"
  /\ tacTasks' = [ tacTasks EXCEPT ![id].pc =
                     IF TacKeepsPolling(tacTasks[id]) THEN "poll"
                     ELSE "trial_end" ]
  /\ UNCHANGED << pause, running, trained, menu, sel, call, nfu, vie, mtVars, tac, tacFiles >>

\* values of Plant.grasp_id
GraspIds == { "Spherical Grasp", NoneName }

\* within +- target_error of target_position
WithinBand(position, target_position, target_error) ==
  /\ position < target_position + target_error
  /\ position > target_position - target_error

\* what the band test can give for an axis, over every position of its
\* range the Plant can report (positions are stored by their number only)
BandReadings(lo, hi, target_position, target_error) ==
  { WithinBand(position, target_position, target_error) : position \in lo..hi }

\* joint_in_target[i]: within the band, and for a grasp the Plant must
\* hold that grasp
InTarget(within, grasp, joint_name, grasp_id) ==
  /\ within
  /\ grasp => joint_name = grasp_id

\* if all joints in target, increment time_in_target, otherwise reset to 0
DwellNext_AllOut(time_in_target, joint_in_target) ==
  IF \A k \in 1..Len(joint_in_target) : ~joint_in_target[k]
  THEN 0 ELSE time_in_target + 1

DwellNext(time_in_target, joint_in_target) ==
  IF \E k \in 1..Len(joint_in_target) : ~joint_in_target[k]
  THEN 0 ELSE time_in_target + 1

\* exit criteria
DwellReached(time_in_target, dwell_time) == time_in_target >= dwell_time

\* a completion time written at every tracking poll
CompletionTime_EveryPoll(reached, time_elapsed, before) == time_elapsed

\* `self.completion_time = time_elapsed` under the exit criteria
CompletionTime(reached, time_elapsed, before) ==
  IF reached THEN time_elapsed ELSE before

\* await asyncio.sleep(dt): a task that cancelled itself ends here
TacAtSleep(f, at) ==
  IF f.must_cancel THEN TacDead("cancelled") ELSE [ f EXCEPT !.pc = at ]

\* assess_joint: one pass of the polling loop, up to its sleep.  A poll of
\* the start sequence reads the decision; the joint_in_target it computes
\* is overwritten by the next poll before anything reads it, so the frame
\* keeps the vector of tracking polls only, and counts them (tracked, the
\* entries of time_history made after the start sequence).  A tracking poll reads the
\* positions and the grasp; its decision goes to the intent history, which
\* is kept by its length.
TacPoll(id) ==
  /\ TacRuns(id) /\ tacTasks[id].pc = "poll"
  /\ LET f == tacTasks[id]
         n == Len(f.joint_name_list)
         rd == [ k \in 1..n |->
                   BandReadings(tac.lower_limit[k], tac.upper_limit[k],
                                tac.target_position[k], tac.target_error[k]) ]
     IN IF GuiIndexError(tac.condition, n)
        THEN /\ tac' = [ tac EXCEPT !.nsamples = @ + 1 ]
             /\ tacTasks' = [ tacTasks EXCEPT ![id] = TacDead("failed") ]
        ELSE IF f.start_sequence
        THEN \E d \in Decisions(trained) :
               LET entered == f.entered_no_movement \/ d = NoMovement IN
               /\ tac' = [ tac EXCEPT !.nsamples = @ + 1 ]
               /\ tacTasks' = [ tacTasks EXCEPT ![id] = TacAtSleep(
                    [ f EXCEPT !.entered_no_movement = entered,
                               !.seen = SeenNext(f.seen, d),
                               !.start_sequence = ~StartsTracking(d, entered),
                               !.clock = 0 ], "seq_sleep") ]
        ELSE \E within \in Product(rd, n), gid \in GraspIds :
               LET jit == [ k \in 1..n |->
                              InTarget(within[k], f.is_grasp_list[k],
                                       f.joint_name_list[k], gid) ]
                   tit == DwellNext(f.time_in_target, jit)
               IN /\ tac' = [ tac EXCEPT
                                !.nsamples = @ + 1,
                                !.completion_time =
                                   CompletionTime(DwellReached(tit, f.dwell_time),
                                                  f.time_elapsed, @) ]
                  /\ tacTasks' = [ tacTasks EXCEPT ![id] = TacAtSleep(
                       [ f EXCEPT !.joint_in_target = jit,
                                  !.time_in_target = tit,
                                  !.move_complete = DwellReached(tit, f.dwell_time),
                                  !.tracked = @ + 1,
                                  !.time_elapsed = f.clock ], "track_sleep") ]
  /\ running' = NoRun
  /\ UNCHANGED << pause, trained, menu, sel, call, nfu, vie, mtVars, tacFiles >>

\* asyncio.sleep(dt) of the polling loop returns; the wall clock counts
\* from time_begin, which is set when the first movement is seen
TacWake(id) ==
  /\ LoopFree
  /\ tacTasks[id].state = "pending"
  /\ tacTasks[id].pc \in { "seq_sleep", "track_sleep" }
  /\ tacTasks[id].start_sequence => tac.nsamples < MaxSeqPolls
  /\ \E delay \in 1..MaxDelay :
       tacTasks' = [ tacTasks EXCEPT ![id] =
          [ @ EXCEPT !.pc = "poll_check",
                     !.clock = IF tacTasks[id].start_sequence THEN 0
                               ELSE @ + delay ] ]
  /\ running' = << "tac", id >>
  /\ UNCHANGED << pause, trained, menu, sel, call, nfu, vie, mtVars, tac, tacFiles >>

\* TargetAchievementControl.add_data
TacAddData(t) ==
  [ t EXCEPT !.data = Append(@,
      [ target_joint |-> t.target_joint, target_position |-> t.target_position,
        target_error |-> t.target_error, nsamples |-> t.nsamples,
        completion_time |-> t.completion_time,
        lower_limit |-> t.lower_limit, upper_limit |-> t.upper_limit ]) ]

\* the end of assess_joint (its locals are gone), back in the loops of
\* start_assessment
TacTrialEnd(id) ==
  /\ TacRuns(id) /\ tacTasks[id].pc = "trial_end"
  /\ tac' = TacAddData(tac)
  /\ LET f == tacTasks[id]
         back == [ TacNoFrame EXCEPT !.state = f.state,
                                     !.must_cancel = f.must_cancel,
                                     !.reps = f.reps,
                                     !.joints_to_assess = f.joints_to_assess,
                                     !.is_grasp = f.is_grasp,
                                     !.i_rep = f.i_rep, !.i = f.i ]
     IN tacTasks' = [ tacTasks EXCEPT ![id] =
          IF f.ret = "tac1" THEN [ back EXCEPT !.pc = "tac1", !.i = f.i + 1 ]
          ELSE [ back EXCEPT !.pc = "loop", !.i_rep = f.i_rep + 1 ] ]
  /\ UNCHANGED << pause, running, trained, menu, sel, call, nfu, vie, mtVars, tacFiles >>

\* TargetAchievementControl.save_results: one group per stored trial (kept
\* by their number)
TacSaveResults(t) ==
  [ filename |-> t.filename, condition |-> t.condition, Data |-> Len(t.data) ]

\* the end of start_assessment and of run_assessment: save, clear_task
TacSave(id) ==
  /\ TacRuns(id) /\ tacTasks[id].pc = "save"
  /\ \E ok \in BOOLEAN :
       IF ok
       THEN /\ tacFiles' = Append(tacFiles, TacSaveResults(tac))
            /\ tac' = TacClearTask(TacReset(tac))
            /\ tacTasks' = [ tacTasks EXCEPT ![id] = TacDead("done") ]
       ELSE /\ tacTasks' = [ tacTasks EXCEPT ![id] = TacDead("failed") ]
            /\ UNCHANGED << tac, tacFiles >>
  /\ running' = NoRun
  /\ UNCHANGED << pause, trained, menu, sel, call, nfu, vie, mtVars >>

TacStep(id) ==
  \/ TacStart(id)
  \/ TacLoop(id)
  \/ TacLoop1(id)
  \/ TacLoop3(id)
  \/ TacSelect(id)
  \/ TacPollCheck(id)
  \/ TacPoll(id)
  \/ TacWake(id)
  \/ TacTrialEnd(id)
  \/ TacSave(id)

\* ------------------------------------------------------ command dispatch
\* every message goes to Scenario.command_string and to the command_string
\* of both engines; each handler acts on its own commands only

CmdStartMotionTester ==
  /\ LoopFree
  /\ \E p \in menu.mt : MtStartCommand(p)
  /\ UNCHANGED << pause, running, trained, menu, sel, call, nfu, vie, mtFiles, tacVars >>

CmdStopMotionTester ==
  /\ LoopFree
  /\ MtStopCommand
  /\ UNCHANGED << pause, running, trained, menu, sel, call, nfu, vie, mtFiles, tacVars >>

CmdStartTAC1 ==
  /\ LoopFree
  /\ \E p \in menu.tac1 : TacStartCommand(1, p)
  /\ UNCHANGED << pause, running, trained, menu, sel, call, nfu, vie, mtVars, tacFiles >>

CmdStartTAC3 ==
  /\ LoopFree
  /\ \E p \in menu.tac3 : TacStartCommand(3, p)
  /\ UNCHANGED << pause, running, trained, menu, sel, call, nfu, vie, mtVars, tacFiles >>

CmdStopTAC ==
  /\ LoopFree
  /\ TacStopCommand
  /\ UNCHANGED << pause, running, trained, menu, sel, call, nfu, vie, mtVars, tacFiles >>

\* Scenario.command_string, 'Cmd:Pause'
CmdPause ==
  /\ LoopFree
  /\ pause' = PauseToggle(pause)
  /\ UNCHANGED << running, trained, menu, sel, call, nfu, vie, mtVars, tacVars >>

\* -------------------------------------------- target selection on its own
SelIdle == [ pc |-> "idle", cur |-> 0, lo |-> 0, hi |-> 0, err |-> 0,
             target |-> 0, timed_out |-> FALSE ]

\* one run of the selection loop of assess_joint for an axis at position
\* cur with limits lo..hi and error band err, stalls included
SelectTarget ==
  /\ sel.pc = "draw"
  /\ \E o \in DrawOutcomes(sel.cur, sel.lo, sel.hi, sel.err, TRUE) :
       sel' = [ sel EXCEPT !.pc = "done", !.target = o[1], !.timed_out = o[2] ]
  /\ UNCHANGED << pause, running, trained, menu, mtVars, tacVars, call, nfu, vie >>

\* ------------------------------------------------------- specifications
\* A scenario fixes what the environment offers in one behaviour: the
\* trained classes, the command payloads the user interface sends (motion
\* tester <<repetitions, timeout, max_correct>>; target achievement
\* <<repetitions, timeout, dwell, error deg, error pct>>), how many runs
\* are started per engine, and whether the process can be stalled for the
\* 5 s of the target selection.
InitWith(scenarios) ==
  /\ pause = FALSE
  /\ running = NoRun
  /\ \E sc \in scenarios :
       /\ trained = sc.trained
       /\ menu = [ mt |-> sc.mt, tac1 |-> sc.tac1, tac3 |-> sc.tac3,
                   stall |-> sc.stall, runs |-> sc.runs ]
  /\ mt = MtInit
  /\ mtTasks = [ id \in 1..MaxTasks |-> MtNoFrame ]
  /\ mtFiles = << >>
  /\ tac = TacInit
  /\ tacTasks = [ id \in 1..MaxTasks |-> TacNoFrame ]
  /\ tacFiles = << >>
  /\ sel = SelIdle
  /\ call = NoCall
  /\ nfu = NoSink
  /\ vie = NoScenario

ElbowOnly == { "No Movement", "Elbow Flexion", "Elbow Extension" }

ElbowGrasp == ElbowOnly \cup { "Hand Open", "Spherical Grasp" }

ElbowWristGrasp == ElbowGrasp \cup { "Wrist Rotate In", "Wrist Rotate Out" }

\* both engines with short trials and one run of each, either engine alone
\* with runs that are stopped and started again, and either engine alone
\* with trials of two ticks that only the timeout ends
ScenariosBoth ==
  { [ trained |-> ElbowOnly, mt |-> { << 1, 1, 1 >> },
      tac1 |-> { << 1, 1, 1, 1, 5 >> }, tac3 |-> { << 1, 1, 1, 1, 5 >> },
      stall |-> FALSE, runs |-> 1 ],
    [ trained |-> ElbowOnly, mt |-> { << 1, 1, 1 >> },
      tac1 |-> {}, tac3 |-> {}, stall |-> FALSE, runs |-> MaxTasks ],
    [ trained |-> ElbowOnly, mt |-> {},
      tac1 |-> { << 1, 1, 1, 1, 5 >> }, tac3 |-> {},
      stall |-> FALSE, runs |-> MaxTasks ],
    [ trained |-> { "No Movement", "Elbow Flexion" }, mt |-> { << 1, 2, 3 >> },
      tac1 |-> {}, tac3 |-> {}, stall |-> FALSE, runs |-> 1 ],
    [ trained |-> ElbowOnly, mt |-> {},
      tac1 |-> { << 1, 2, 3, 1, 5 >> }, tac3 |-> {},
      stall |-> FALSE, runs |-> 1 ] }

Init == InitWith(ScenariosBoth)

NextMt ==
  \/ CmdStartMotionTester
  \/ CmdStopMotionTester
  \/ CmdPause
  \/ \E id \in 1..MaxTasks : MtStep(id)

NextTac ==
  \/ CmdStartTAC1
  \/ CmdStartTAC3
  \/ CmdStopTAC
  \/ \E id \in 1..MaxTasks : TacStep(id)

Next == NextMt \/ NextTac

Spec == Init /\ [][Next]_vars

\* the motion tester alone, trials of several polls
ScenariosMt ==
  { [ trained |-> { "No Movement", "Elbow Flexion" },
      mt |-> { << 1, 3, 3 >>, << 1, 2, 1 >>, << 1, 0, 0 >> },
      tac1 |-> {}, tac3 |-> {}, stall |-> FALSE, runs |-> 1 ],
    [ trained |-> ElbowOnly,
      mt |-> { << 2, 1, 1 >> },
      tac1 |-> {}, tac3 |-> {}, stall |-> FALSE, runs |-> MaxTasks ] }

InitMt == InitWith(ScenariosMt)

SpecMt == InitMt /\ [][NextMt]_vars

GraspOnly == { "No Movement", "Hand Open", "Spherical Grasp" }

\* the target-achievement engine alone
ScenariosTac ==
  { [ trained |-> ElbowOnly, mt |-> {},
      tac1 |-> { << 1, 3, 2, 1, 5 >>, << 2, 2, 0, 1, 5 >> },
      tac3 |-> { << 1, 1, 1, 1, 5 >> }, stall |-> FALSE, runs |-> 1 ],
    [ trained |-> ElbowOnly, mt |-> {},
      tac1 |-> { << 1, 1, 1, 1, 5 >> },
      tac3 |-> {}, stall |-> FALSE, runs |-> MaxTasks ],
    [ trained |-> ElbowOnly, mt |-> {},
      tac1 |-> { << 2, 1, 0, 1, 5 >> },
      tac3 |-> {}, stall |-> FALSE, runs |-> MaxTasks ],
    [ trained |-> ElbowOnly, mt |-> {},
      tac1 |-> { << 1, 0, 1, 1, 5 >>, << 2, 2, 1, 1, 5 >> },
      tac3 |-> {}, stall |-> FALSE, runs |-> 1 ],
    [ trained |-> GraspOnly, mt |-> {},
      tac1 |-> { << 1, 2, 2, 1, 5 >> },
      tac3 |-> {}, stall |-> FALSE, runs |-> 1 ],
    [ trained |-> ElbowGrasp, mt |-> {},
      tac1 |-> {},
      tac3 |-> { << 1, 1, 1, 1, 23 >> }, stall |-> FALSE, runs |-> MaxTasks ],
    [ trained |-> ElbowWristGrasp, mt |-> {},
      tac1 |-> {},
      tac3 |-> { << 1, 1, 1, 1, 23 >> }, stall |-> FALSE, runs |-> 1 ] }

InitTac == InitWith(ScenariosTac)

SpecTac == InitTac /\ [][NextTac]_vars

\* the target selection alone: every axis of the model, every position of
\* its range, every error band up to MaxError
MaxError == 3

SelAxes == { << lower_limit.ELBOW, upper_limit.ELBOW >>,
             << lower_limit.WRIST_ROT, upper_limit.WRIST_ROT >>,
             << GraspLower, GraspUpper >> }

InitTarget ==
  /\ pause = FALSE
  /\ running = NoRun
  /\ trained = {}
  /\ menu = [ mt |-> {}, tac1 |-> {}, tac3 |-> {}, stall |-> TRUE, runs |-> 0 ]
  /\ mt = MtInit
  /\ mtTasks = [ id \in 1..MaxTasks |-> MtNoFrame ]
  /\ mtFiles = << >>
  /\ tac = TacInit
  /\ tacTasks = [ id \in 1..MaxTasks |-> TacNoFrame ]
  /\ tacFiles = << >>
  /\ call = NoCall
  /\ nfu = NoSink
  /\ vie = NoScenario
  /\ \E ax \in SelAxes, err \in 0..MaxError :
       \E cur \in ax[1]..ax[2] :
         sel = [ SelIdle EXCEPT !.pc = "draw", !.cur = cur, !.lo = ax[1],
                                !.hi = ax[2], !.err = err ]

NextTarget == SelectTarget

SpecTarget == InitTarget /\ [][NextTarget]_vars

\* ------------------------------------------------------------ properties
MtActive == { id \in 1..MaxTasks : mtTasks[id].state = "pending" }

TacActive == { id \in 1..MaxTasks : tacTasks[id].state = "pending" }

\* a motion-tester task between its first trial and its end
MtInRun(id) ==
  mtTasks[id].state = "pending" /\ mtTasks[id].pc \notin { "start", "save" }

\* a motion-tester task inside a trial (assess_class)
MtInTrial(id) ==
  /\ mtTasks[id].state = "pending"
  /\ mtTasks[id].pc \in { "await_poll", "await_sleep", "track_check",
                          "track_poll", "track_sleep", "trial_end" }

\* a motion-tester task in the tracking phase of a trial
MtTracking(id) ==
  /\ mtTasks[id].state = "pending"
  /\ mtTasks[id].pc \in { "track_check", "track_poll", "track_sleep",
                          "trial_end" }

\* a target-achievement task inside a trial (assess_joint)
TacInTrial(id) ==
  /\ tacTasks[id].state = "pending"
  /\ tacTasks[id].pc \in { "poll_check", "poll", "seq_sleep", "track_sleep",
                           "trial_end" }

\* a target-achievement task in the tracking phase of a trial
TacTracking(id) == TacInTrial(id) /\ ~tacTasks[id].start_sequence

\* C1: at most one assessment task is active at any time, over both
\* engines together (a Start that arrives while a task of either engine is
\* active creates no task).
C1_AtMostOneActive == Cardinality(MtActive) + Cardinality(TacActive) <= 1

MtForgotten(id) ==
  mtTasks[id].state \in { "pending", "cancelled" } /\ mt.task # id

TacForgotten(id) ==
  /\ tacTasks[id].state \in { "pending", "cancelled" }
  /\ tac.task # id
  /\ ~tacTasks[id].must_cancel

\* C3: once a stop command has cancelled a run, that run takes no further
\* step (no poll, no trial), and every sample, trial record and results
\* file that is added is added by a task that was not stopped, while it
\* holds the event loop.
C3_CancelledRunIsSilent ==
  [][ /\ \A id \in 1..MaxTasks :
           /\ MtForgotten(id) => mtTasks'[id] = mtTasks[id]
           /\ TacForgotten(id) => tacTasks'[id] = tacTasks[id]
      /\ ( \/ Len(mtFiles') > Len(mtFiles)
           \/ (mt'.data # mt.data /\ mt'.data # << >>) )
           => \E id \in 1..MaxTasks :
                running = << "mt", id >> /\ ~MtForgotten(id)
      /\ ( \/ Len(tacFiles') > Len(tacFiles)
           \/ Len(tac'.data) > Len(tac.data)
           \/ tac'.nsamples > tac.nsamples )
           => \E id \in 1..MaxTasks :
                running = << "tac", id >> /\ ~TacForgotten(id) ]_vars

\* runs of both engines stopped after they had taken samples
C3_Witness ==
  /\ \E id \in 1..MaxTasks :
       mtTasks[id].state = "cancelled" /\ mt.data # << >>
  /\ \E id \in 1..MaxTasks :
       tacTasks[id].state = "cancelled" /\ tac.nsamples > 0

\* C4: the step in which a motion-tester task ends with an exception
\* leaves the pause flag cleared and the task handle cleared (so that the
\* next Start is accepted).
C4_FailureReleases ==
  [][ \A id \in 1..MaxTasks :
        (mtTasks[id].state = "pending" /\ mtTasks'[id].state = "failed")
          => (pause' = FALSE /\ mt'.task = NoneTask) ]_vars

C6_TrackingAfterNeutral ==
  \A id \in 1..MaxTasks :
    /\ MtTracking(id) => mtTasks[id].seen = 2
    /\ TacTracking(id) => tacTasks[id].seen = 2
    /\ (TacInTrial(id) /\ tacTasks[id].start_sequence)
         => (tacTasks[id].time_in_target = 0 /\ ~tacTasks[id].move_complete)

C6_Witness ==
  /\ \E id \in 1..MaxTasks : MtTracking(id) /\ mtTasks[id].pc = "track_sleep"
  /\ \E id \in 1..MaxTasks : TacTracking(id) /\ tacTasks[id].pc = "track_sleep"

\* decisions of the trial record in progress that equal the class tested
CorrectIn(rec, class_name) ==
  Cardinality({ k \in 1..Len(rec.classDecision) :
                  rec.classDecision[k] = MotionIndex(class_name) })

LastRecord(m) == m.data[Len(m.data)]

\* C7: every poll of the tracking loop is taken while the elapsed time is
\* below the timeout; a trial ends complete exactly when a poll brought
\* the number of correct decisions to max_correct; with max_correct = 3
\* and the first three polls correct the trial is complete with exactly
\* three samples.
C7_CompleteIffReached ==
  \A id \in 1..MaxTasks :
    LET f == mtTasks[id] IN
    /\ (f.state = "pending" /\ f.pc = "track_poll")
         => f.time_elapsed < f.timeout
    /\ (f.state = "pending" /\ f.pc = "trial_end")
         => LET rec == LastRecord(mt)
                n == Len(rec.classDecision)
            IN /\ f.move_complete <=>
                    (n >= 1 /\ CorrectIn(rec, f.class_name) >= f.max_correct)
               /\ ( /\ f.max_correct = 3 /\ n >= 3
                    /\ \A k \in 1..3 :
                         rec.classDecision[k] = MotionIndex(f.class_name) )
                    => (f.move_complete /\ n = 3)

C7_Witness ==
  \E id \in 1..MaxTasks :
    /\ mtTasks[id].state = "pending" /\ mtTasks[id].pc = "trial_end"
    /\ mtTasks[id].max_correct = 3 /\ mtTasks[id].move_complete
    /\ Len(LastRecord(mt).classDecision) = 3

\* C8: after every poll of the tracking phase in which an axis was not in
\* its target, time_in_target is 0.
C8_DwellResets ==
  \A id \in 1..MaxTasks :
    LET f == tacTasks[id] IN
    ( /\ f.state = "pending" /\ f.pc = "track_sleep"
      /\ \E k \in 1..Len(f.joint_in_target) : ~f.joint_in_target[k] )
      => f.time_in_target = 0

\* a trial on three axes, polled in its tracking phase with one axis in
\* its target and another one outside
C8_Witness ==
  \E id \in 1..MaxTasks :
    LET f == tacTasks[id] IN
    /\ f.state = "pending" /\ f.pc = "track_sleep"
    /\ Len(f.joint_in_target) = 3
    /\ \E k \in 1..3 : ~f.joint_in_target[k]
    /\ \E k \in 1..3 : f.joint_in_target[k]
    /\ f.time_in_target = 0

\* C9: a trial is complete only when at the completing poll every axis
\* was in its target and had been so for at least the dwell time, whatever
\* the dwell time (0 included).
C9_CompleteOnlyInTarget ==
  \A id \in 1..MaxTasks :
    LET f == tacTasks[id] IN
    (f.state = "pending" /\ f.move_complete)
      => /\ \A k \in 1..Len(f.joint_in_target) : f.joint_in_target[k]
         /\ f.time_in_target >= f.dwell_time

\* C10: a target that was chosen without the 5 s fallback is at least a
\* quarter of the range away from the current position and more than the
\* error band away from either limit.
C10_TargetValid ==
  (sel.pc = "done" /\ ~sel.timed_out)
    => /\ 4 * Abs(sel.target - sel.cur) >= sel.hi - sel.lo
       /\ Abs(sel.target - sel.hi) > sel.err
       /\ Abs(sel.target - sel.lo) > sel.err

C10_Witness ==
  /\ sel.pc = "done" /\ ~sel.timed_out
  /\ sel.err > 0 /\ sel.hi - sel.lo > 2

\* the parameters of a motion-tester run
MtParams(m) == << m.repetitions, m.timeout, m.max_correct >>

\* the parameters of a target-achievement run
TacParams(t) ==
  << t.repetitions, t.timeout, t.dwell_time, t.target_error_degree,
     t.target_error_percent, t.condition, t.assessment_type >>

\* C11: the parameters of a running assessment do not change between its start
\* and its end: across every step in which an engine's task is pending and
\* stays the engine's current task, the engine's parameters are the same.
C11_ParamsFixed ==
  [][ /\ ( /\ mt.task # NoneTask
           /\ mtTasks[mt.task].state = "pending"
           /\ mt'.task = mt.task )
         => MtParams(mt') = MtParams(mt)
      /\ ( /\ tac.task # NoneTask
           /\ tacTasks[tac.task].state = "pending"
           /\ tac'.task = tac.task )
         => TacParams(tac') = TacParams(tac) ]_vars

\* what start_assessment finds trained when the condition is TAC3
TrainedPlan ==
  Tac3Plan(trained_joints(trained_classes(trained)),
           trained_grasps(trained_classes(trained)))

\* C13: when every start is a StartTAC3 and ELBOW, every wrist joint or every
\* grasp is not fully trained, the assessment does not start: no task is in a
\* trial, no target is selected, no sample is produced and no results file is
\* written.
C13_UntrainedTac3DoesNotStart ==
  (menu.tac1 = {} /\ TrainedPlan.missing > 0)
    => /\ \A id \in 1..MaxTasks : ~TacInTrial(id)
       /\ tac.target_joint = << >>
       /\ tac.nsamples = 0
       /\ tac.data = << >>
       /\ tacFiles = << >>

\* C14: on normal completion of a run of either engine the trial records are
\* serialized exactly once, after the final trial: the step that completes a
\* task has finished every repetition, appends one file that holds every
\* record in memory, and leaves the trial list empty and the engine idle; no
\* other step writes a file.
C14_SavedOnceThenIdle ==
  [][ /\ \A id \in 1..MaxTasks :
           (mtTasks[id].state = "pending" /\ mtTasks'[id].state = "done")
             => /\ \/ mtTasks[id].i_rep >= mtTasks[id].reps
                   \/ mtTasks[id].classes = << >>
                /\ Len(mtFiles') = Len(mtFiles) + 1
                /\ mtFiles'[Len(mtFiles')].Data = Len(mt.data)
                /\ mt'.data = << >>
                /\ mt'.task = NoneTask
      /\ Len(mtFiles') # Len(mtFiles)
           => \E id \in 1..MaxTasks :
                mtTasks[id].state = "pending" /\ mtTasks'[id].state = "done"
      /\ \A id \in 1..MaxTasks :
           (tacTasks[id].state = "pending" /\ tacTasks'[id].state = "done")
             => /\ tacTasks[id].i_rep >= tacTasks[id].reps
                /\ Len(tacFiles') = Len(tacFiles) + 1
                /\ tacFiles'[Len(tacFiles')].Data = Len(tac.data)
                /\ tac'.data = << >>
                /\ tac'.task = NoneTask
      /\ Len(tacFiles') # Len(tacFiles)
           => \E id \in 1..MaxTasks :
                tacTasks[id].state = "pending" /\ tacTasks'[id].state = "done"
    ]_vars

\* both engines have completed a run with records and are idle again
C14_Witness ==
  /\ Len(mtFiles) > 0 /\ mtFiles[1].Data > 0
  /\ mt.task = NoneTask /\ mt.data = << >>
  /\ Len(tacFiles) > 0 /\ tacFiles[1].Data > 0
  /\ tac.task = NoneTask /\ tac.data = << >>

\* ---------------------------------------------------------------------------
\* command_string on its own: the text of a command and how it is parsed
\* ---------------------------------------------------------------------------

\* A command text is a sequence of tokens: the separators ":" and "-", digits
\* and words.  Numbers of a payload count poll intervals.

\* most '-'-separated fields of a generated payload
MaxFields == 6

Digits == { "0", "1", "2", "3", "4", "5", "6", "7", "8", "9" }

DigitValue(d) ==
  CASE d = "0" -> 0 [] d = "1" -> 1 [] d = "2" -> 2 [] d = "3" -> 3
    [] d = "4" -> 4 [] d = "5" -> 5 [] d = "6" -> 6 [] d = "7" -> 7
    [] d = "8" -> 8 [] d = "9" -> 9

\* the positions of s that hold the separator
SepAt(s, sep) == { k \in 1..Len(s) : s[k] = sep }

Least(S) == CHOOSE k \in S : \A j \in S : k <= j

RECURSIVE Split(_, _)
\* str.split(sep)
Split(s, sep) ==
  IF SepAt(s, sep) = {} THEN << s >>
  ELSE LET k == Least(SepAt(s, sep))
       IN << SubSeq(s, 1, k - 1) >> \o Split(SubSeq(s, k + 1, Len(s)), sep)

RECURSIVE Join(_, _)
\* sep.join(parts)
Join(parts, sep) ==
  IF Len(parts) = 0 THEN << >>
  ELSE IF Len(parts) = 1 THEN parts[1]
  ELSE parts[1] \o << sep >> \o Join(Tail(parts), sep)

\* `word in text`
Contains(text, word) == \E k \in 1..Len(text) : text[k] = word

\* float(text) succeeds
IsNumber(text) == Len(text) >= 1 /\ \A k \in 1..Len(text) : text[k] \in Digits

RECURSIVE NumberOf(_)
\* float(text) of a text that is a number
NumberOf(text) ==
  IF Len(text) = 0 THEN 0
  ELSE 10 * NumberOf(SubSeq(text, 1, Len(text) - 1)) + DigitValue(text[Len(text)])

RECURSIVE ParseFields(_, _, _)
\* the assignments `self.x = float(cmd_data.split('-')[k])` for k = from..to, in
\* order: the values assigned and the error that ended them
ParseFields(fields, from, to) ==
  IF from > to THEN [ values |-> << >>, error |-> "none" ]
  ELSE IF from > Len(fields) THEN [ values |-> << >>, error |-> "IndexError" ]
  ELSE IF ~IsNumber(fields[from]) THEN [ values |-> << >>, error |-> "ValueError" ]
  ELSE LET rest == ParseFields(fields, from + 1, to)
       IN [ values |-> << NumberOf(fields[from]) >> \o rest.values,
            error |-> rest.error ]

\* MotionTester.command_string up to the test of self.task
MtParse(value) ==
  LET parsed == Split(value, ":")
  IN IF Len(parsed) # 2 THEN [ kind |-> "invalid", values |-> << >>, error |-> "none" ]
     ELSE IF parsed[1] # << "Cmd" >>
     THEN [ kind |-> "other", values |-> << >>, error |-> "none" ]
     ELSE IF Contains(parsed[2], "StartMotionTester")
     THEN LET r == ParseFields(Split(parsed[2], "-"), 2, 4)
          IN [ kind |-> "start", values |-> r.values, error |-> r.error ]
     ELSE IF Contains(parsed[2], "StopMotionTester")
     THEN [ kind |-> "stop", values |-> << >>, error |-> "none" ]
     ELSE [ kind |-> "unknown", values |-> << >>, error |-> "none" ]

\* TargetAchievementControl.command_string up to the test of self.task
TacParse(value) ==
  LET parsed == Split(value, ":")
  IN IF Len(parsed) # 2 THEN [ kind |-> "invalid", values |-> << >>, error |-> "none" ]
     ELSE IF parsed[1] # << "Cmd" >>
     THEN [ kind |-> "other", values |-> << >>, error |-> "none" ]
     ELSE IF Contains(parsed[2], "StartTAC1")
     THEN LET r == ParseFields(Split(parsed[2], "-"), 2, 6)
          IN [ kind |-> "start1", values |-> r.values, error |-> r.error ]
     ELSE IF Contains(parsed[2], "StartTAC3")
     THEN LET r == ParseFields(Split(parsed[2], "-"), 2, 6)
          IN [ kind |-> "start3", values |-> r.values, error |-> r.error ]
     ELSE IF Contains(parsed[2], "StopTAC")
     THEN [ kind |-> "stop", values |-> << >>, error |-> "none" ]
     ELSE [ kind |-> "unknown", values |-> << >>, error |-> "none" ]

\* the parameters of the motion tester after the first Len(v) assignments
MtAssigned(m, v) ==
  [ m EXCEPT !.repetitions = IF Len(v) >= 1 THEN v[1] ELSE @,
             !.timeout = IF Len(v) >= 2 THEN v[2] ELSE @,
             !.max_correct = IF Len(v) >= 3 THEN v[3] ELSE @ ]

\* the parameters of the TAC engine after the type, the condition and the
\* first Len(v) assignments
TacAssigned(t, c, v) ==
  [ t EXCEPT !.assessment_type = IF c = 1 THEN "TAC1" ELSE "TAC3",
             !.condition = c,
             !.repetitions = IF Len(v) >= 1 THEN v[1] ELSE @,
             !.timeout = IF Len(v) >= 2 THEN v[2] ELSE @,
             !.dwell_time = IF Len(v) >= 3 THEN v[3] ELSE @,
             !.target_error_degree = IF Len(v) >= 4 THEN v[4] ELSE @,
             !.target_error_percent = IF Len(v) >= 5 THEN v[5] ELSE @ ]

CallReturns(error) == call' = [ call EXCEPT !.pc = "returned", !.raised = error ]

\* one call of MotionTester.command_string(value)
MtCommandString ==
  /\ call.fn = "command_string" /\ call.engine = "mt" /\ call.pc = "called"
  /\ LoopFree
  /\ LET r == MtParse(call.value)
     IN /\ CallReturns(r.error)
        /\ IF r.kind = "start" /\ r.error = "none" THEN MtStartCommand(r.values)
           ELSE IF r.kind = "start"
           THEN mt' = MtAssigned(mt, r.values) /\ UNCHANGED mtTasks
           ELSE IF r.kind = "stop" THEN MtStopCommand
           ELSE UNCHANGED << mt, mtTasks >>
  /\ UNCHANGED << pause, running, trained, menu, sel, nfu, vie, mtFiles, tacVars >>

\* one call of TargetAchievementControl.command_string(value)
TacCommandString ==
  /\ call.fn = "command_string" /\ call.engine = "tac" /\ call.pc = "called"
  /\ LoopFree
  /\ LET r == TacParse(call.value)
         c == IF r.kind = "start1" THEN 1 ELSE 3
     IN /\ CallReturns(r.error)
        /\ IF r.kind \in { "start1", "start3" } /\ r.error = "none"
           THEN TacStartCommand(c, r.values)
           ELSE IF r.kind \in { "start1", "start3" }
           THEN tac' = TacAssigned(tac, c, r.values) /\ UNCHANGED tacTasks
           ELSE IF r.kind = "stop" THEN TacStopCommand
           ELSE UNCHANGED << tac, tacTasks >>
  /\ UNCHANGED << pause, running, trained, menu, sel, nfu, vie, mtVars, tacFiles >>

\* the command words and the fields that follow them in a generated payload
CommandWords ==
  { "StartMotionTester", "StopMotionTester", "StartTAC1", "StartTAC3",
    "StopTAC", "Pause" }

FieldTexts == { << "2" >>, << "x" >> }

\* the payloads: a command word and up to MaxFields - 1 further fields
Payloads ==
  UNION { { Join(<< << w >> >> \o fs, "-") :
              fs \in [ 1..n -> FieldTexts ], w \in CommandWords } :
          n \in 0..(MaxFields - 1) }

\* the command texts: without ':', with a type other than 'Cmd', well formed,
\* and with a third part
CommandTexts ==
  UNION { { p,
            Join(<< << "Cmd" >>, p >>, ":"),
            Join(<< << "Log" >>, p >>, ":"),
            Join(<< << "Cmd" >>, p, << "x" >> >>, ":") } : p \in Payloads }

\* either engine, idle or with a task created by an earlier Start, receives
\* one command text
InitCommand ==
  /\ pause = FALSE
  /\ running = NoRun
  /\ trained = ElbowOnly
  /\ menu = [ mt |-> {}, tac1 |-> {}, tac3 |-> {}, stall |-> FALSE,
              runs |-> MaxTasks ]
  /\ mtFiles = << >>
  /\ tacFiles = << >>
  /\ sel = SelIdle
  /\ nfu = NoSink
  /\ vie = NoScenario
  /\ \E busy \in BOOLEAN :
       /\ mt = [ MtInit EXCEPT !.task = IF busy THEN 1 ELSE NoneTask ]
       /\ mtTasks = [ id \in 1..MaxTasks |->
                        IF busy /\ id = 1
                        THEN [ MtNoFrame EXCEPT !.state = "pending", !.pc = "start" ]
                        ELSE MtNoFrame ]
       /\ tac = [ TacInit EXCEPT !.task = IF busy THEN 1 ELSE NoneTask ]
       /\ tacTasks = [ id \in 1..MaxTasks |->
                         IF busy /\ id = 1
                         THEN [ TacNoFrame EXCEPT !.state = "pending", !.pc = "start" ]
                         ELSE TacNoFrame ]
  /\ \E e \in { "mt", "tac" }, v \in CommandTexts :
       call = [ fn |-> "command_string", engine |-> e, value |-> v,
                pc |-> "called", raised |-> "none" ]

NextCommand == MtCommandString \/ TacCommandString

SpecCommand == InitCommand /\ [][NextCommand]_vars

\* a text that does not split into two parts on ':'
NotTwoParts(value) == Len(Split(value, ":")) # 2

\* a Start payload with the wrong number of '-'-separated fields
WrongFieldCount(e, value) ==
  /\ ~NotTwoParts(value)
  /\ LET data == Split(value, ":")[2]
     IN IF e = "mt"
        THEN Contains(data, "StartMotionTester") /\ Len(Split(data, "-")) # 4
        ELSE (Contains(data, "StartTAC1") \/ Contains(data, "StartTAC3"))
             /\ Len(Split(data, "-")) # 6

\* C12: command_string of both engines never raises for any input string, and
\* a string that does not split into exactly two parts on ':' or a Start
\* payload with the wrong number of '-'-separated fields leaves the engine's
\* parameters and task state unchanged.
C12_NeverRaises ==
  [][ (call.fn = "command_string" /\ call.pc = "called" /\ call'.pc = "returned")
        => /\ call'.raised = "none"
           /\ (NotTwoParts(call.value) \/ WrongFieldCount(call.engine, call.value))
                => UNCHANGED << mt, mtTasks, tac, tacTasks >> ]_vars

\* ---------------------------------------------------------------------------
\* save_results on its own: the choice of the file name
\* ---------------------------------------------------------------------------

\* largest numeric suffix among the files that exist before the call
MaxFiles == 3

DigitText(d) ==
  CASE d = 0 -> "0" [] d = 1 -> "1" [] d = 2 -> "2" [] d = 3 -> "3"
    [] d = 4 -> "4" [] d = 5 -> "5" [] d = 6 -> "6" [] d = 7 -> "7"
    [] d = 8 -> "8" [] d = 9 -> "9"

RECURSIVE Str(_)
\* str(n) of a natural number
Str(n) == IF n < 10 THEN << DigitText(n) >>
          ELSE Str(n \div 10) \o << DigitText(n % 10) >>

file_ext == ".hdf5"

\* t + '_' + self.filename + self.file_ext
FirstName(t, filename) == << t, "_", filename, file_ext >>

\* t + '_' + self.filename + str(counter) + self.file_ext
CountedName(t, filename, counter) ==
  << t, "_", filename >> \o Str(counter) \o << file_ext >>

\* the files that may exist in the working directory before the call
PossibleFiles ==
  { FirstName("T", "MOTION_TESTER_LOG"), FirstName("T", "TAC1_LOG") }
    \cup { CountedName("T", n, k) :
             n \in { "MOTION_TESTER_LOG", "TAC1_LOG" }, k \in 1..MaxFiles }

\* a test that never finds the file
Exists_Never(f, existing) == FALSE

\* os.path.exists(f)
Exists(f, existing) == f \in existing

\* save_results is called with some files in the directory
InitSave ==
  /\ pause = FALSE
  /\ running = NoRun
  /\ trained = ElbowOnly
  /\ menu = [ mt |-> {}, tac1 |-> {}, tac3 |-> {}, stall |-> FALSE,
              runs |-> MaxTasks ]
  /\ mt = MtInit
  /\ mtTasks = [ id \in 1..MaxTasks |-> MtNoFrame ]
  /\ mtFiles = << >>
  /\ tac = TacInit
  /\ tacTasks = [ id \in 1..MaxTasks |-> TacNoFrame ]
  /\ tacFiles = << >>
  /\ sel = SelIdle
  /\ nfu = NoSink
  /\ vie = NoScenario
  /\ \E existing \in SUBSET PossibleFiles, n \in { "MOTION_TESTER_LOG", "TAC1_LOG" } :
       call = [ fn |-> "save_results", pc |-> "while", t |-> "T", filename |-> n,
                existing |-> existing, f |-> FirstName("T", n), counter |-> 1,
                opened |-> << >> ]

\* the body of `while os.path.exists(f)`
SaveNextName ==
  /\ call.fn = "save_results" /\ call.pc = "while"
  /\ Exists(call.f, call.existing)
  /\ call' = [ call EXCEPT !.f = CountedName(call.t, call.filename, call.counter),
                           !.counter = call.counter + 1 ]
  /\ UNCHANGED << pause, running, trained, menu, mtVars, tacVars, sel, nfu, vie >>

\* h5py.File(f, 'w') after the loop
SaveOpen ==
  /\ call.fn = "save_results" /\ call.pc = "while"
  /\ ~Exists(call.f, call.existing)
  /\ call' = [ call EXCEPT !.pc = "opened", !.opened = call.f ]
  /\ UNCHANGED << pause, running, trained, menu, mtVars, tacVars, sel, nfu, vie >>

NextSave == SaveNextName \/ SaveOpen

SpecSave == InitSave /\ [][NextSave]_vars

\* the k-th name of the series <timestamp>_<name>.hdf5, <timestamp>_<name>1.hdf5,
\* <timestamp>_<name>2.hdf5, ...
SeriesName(t, n, k) ==
  IF k = 0 THEN << t, "_", n, ".hdf5" >>
  ELSE << t, "_", n >> \o Str(k) \o << ".hdf5" >>

\* C15: save_results never opens for writing a file name that already exists:
\* the name it opens is the first of the series <timestamp>_<name>.hdf5,
\* <timestamp>_<name>1.hdf5, <timestamp>_<name>2.hdf5, ... that does not exist.
C15_FirstFreeName ==
  (call.fn = "save_results" /\ call.pc = "opened")
    => /\ call.opened \notin call.existing
       /\ \E k \in 0..(MaxFiles + 1) :
            /\ call.opened = SeriesName(call.t, call.filename, k)
            /\ \A j \in 0..(k - 1) :
                 SeriesName(call.t, call.filename, j) \in call.existing

\* the unsuffixed name and the names with suffix 1 and 2 exist and the file
\* with suffix 3 was opened
C15_Witness ==
  /\ call.fn = "save_results" /\ call.pc = "opened"
  /\ call.opened = << "T", "_", call.filename, "3", ".hdf5" >>
  /\ << "T", "_", call.filename, ".hdf5" >> \in call.existing

\* ---------------------------------------------------------------------------
\* The wire protocol of the limb: the encoders of open_nfu_protocol and the
\* frames NfuUdp builds itself.  A frame is a sequence of bytes 0..255.
\* ---------------------------------------------------------------------------

NUM_UPPER_ARM_JOINTS == 7

NUM_HAND_JOINTS == 20

NUM_JOINTS == 27

\* the IEEE 754 single-precision bytes of a value, least significant first,
\* as struct packs an 'f' on a little-endian host
Float32(v) ==
  CASE v = "0.0" -> << 0, 0, 0, 0 >>
    [] v = "1.0" -> << 0, 0, 128, 63 >>
    [] v = "-1.0" -> << 0, 0, 128, 191 >>
    [] v = "0.5" -> << 0, 0, 0, 63 >>
    [] v = "4.0" -> << 0, 0, 128, 64 >>
    [] v = "20.0" -> << 0, 0, 160, 65 >>
    [] v = "40.0" -> << 0, 0, 32, 66 >>
    [] v = "15.6288" -> << 145, 15, 122, 65 >>
    [] v = "0.1" -> << 205, 204, 204, 61 >>

\* the bytes of a sequence of floats, four per value
FloatsBytes(values) ==
  [ k \in 1..(4 * Len(values)) |->
      Float32(values[((k - 1) \div 4) + 1])[((k - 1) % 4) + 1] ]

\* a length field that keeps only the low byte
PackU16_LowByte(n) == << n % 256, 0 >>

\* an 'H' of struct: an unsigned 16-bit number, least significant byte first
PackU16(n) == << (n % 65536) % 256, (n % 65536) \div 256 >>

\* struct.Struct('HBB<n>f').pack(length, msg_type, msg_id, *payload): the
\* four header bytes end on a multiple of four, so no padding is inserted
Pack(length, msg_type, msg_id, payload) ==
  PackU16(length) \o << msg_type % 256, msg_id % 256 >> \o FloatsBytes(payload)

RECURSIVE SumRange(_, _, _)
\* the sum of bytes[lo..hi], by halves
SumRange(bytes, lo, hi) ==
  IF lo > hi THEN 0
  ELSE IF lo = hi THEN bytes[lo]
  ELSE LET mid == (lo + hi) \div 2
       IN SumRange(bytes, lo, mid) + SumRange(bytes, mid + 1, hi)

\* sum(payload)
SumBytes(bytes) == SumRange(bytes, 1, Len(bytes))

\* a checksum that is not reduced to one byte
encode_checksum_Unreduced(payload) == Append(payload, SumBytes(payload))

\* encode_checksum
encode_checksum(payload) == Append(payload, SumBytes(payload) % 256)

\* encode_position_velocity_command before the checksum
PackPV(position, velocity) == Pack(219, 5, 1, position \o velocity)

\* encode_position_velocity_impedance_command before the checksum
PackPVI(position, velocity, impedance) ==
  Pack(327, 5, 8, position \o velocity \o impedance)

magic_impedance ==
  Repeat("40.0", NUM_UPPER_ARM_JOINTS) \o Repeat("15.6288", NUM_HAND_JOINTS)

\* the stiffness vectors load_config_parameters builds from its defaults
stiffness_high == Repeat("40.0", NUM_UPPER_ARM_JOINTS) \o Repeat("4.0", NUM_HAND_JOINTS)

stiffness_low == Repeat("20.0", NUM_UPPER_ARM_JOINTS) \o Repeat("4.0", NUM_HAND_JOINTS)

\* encode_cmd_state_limb_idle before the checksum
PackIdle == << 3, 0, 10, 10 >>

\* encode_cmd_state_limb_soft_reset before the checksum
PackSoftReset == << 3, 0, 11, 11 >>

\* the frames NfuUdp.set_limb_idle and set_limb_soft_reset send
NfuUdpIdleFrame == << 3, 0, 10, 10, 23 >>

NfuUdpSoftResetFrame == << 3, 0, 11, 11, 25 >>

\* the message NfuUdp.send_joint_angles packs, by impedance mode
NfuUdpPack(mode, values, velocity) ==
  CASE mode = "reset" -> Pack(327, 5, 8, values \o velocity \o magic_impedance)
    [] mode = "low" -> Pack(327, 5, 8, values \o velocity \o stiffness_low)
    [] mode = "high" -> Pack(327, 5, 8, values \o velocity \o stiffness_high)
    [] mode = "off" -> Pack(219, 5, 1, values \o velocity)

\* the joint vectors given to the encoders: every joint at one value, or one
\* joint away from zero
InputFloats == { "0.0", "1.0", "-1.0", "0.5" }

JointVectors ==
  { Repeat(v, NUM_JOINTS) : v \in InputFloats }
    \cup { [ k \in 1..NUM_JOINTS |-> IF k = j THEN v ELSE "0.0" ] :
             j \in { 1, 4, NUM_JOINTS }, v \in InputFloats \ { "0.0" } }

Encoders ==
  { "encode_position_velocity_command",
    "encode_position_velocity_impedance_command",
    "encode_impedance_reset", "encode_cmd_state_limb_idle",
    "encode_cmd_state_limb_soft_reset", "NfuUdp.send_joint_angles",
    "NfuUdp.set_limb_idle", "NfuUdp.set_limb_soft_reset" }

ImpedanceModes == { "reset", "low", "high", "off" }

\* one call of an encoder with its arguments
InitCodec ==
  /\ pause = FALSE
  /\ running = NoRun
  /\ trained = ElbowOnly
  /\ menu = [ mt |-> {}, tac1 |-> {}, tac3 |-> {}, stall |-> FALSE,
              runs |-> MaxTasks ]
  /\ mt = MtInit
  /\ mtTasks = [ id \in 1..MaxTasks |-> MtNoFrame ]
  /\ mtFiles = << >>
  /\ tac = TacInit
  /\ tacTasks = [ id \in 1..MaxTasks |-> TacNoFrame ]
  /\ tacFiles = << >>
  /\ sel = SelIdle
  /\ nfu = NoSink
  /\ vie = NoScenario
  /\ \E fn \in Encoders, position \in JointVectors,
        velocity \in { Repeat(v, NUM_JOINTS) : v \in { "0.0", "1.0" } },
        mode \in ImpedanceModes :
       /\ fn \in { "encode_cmd_state_limb_idle", "encode_cmd_state_limb_soft_reset",
                   "NfuUdp.set_limb_idle", "NfuUdp.set_limb_soft_reset" }
            => /\ position = Repeat("0.0", NUM_JOINTS)
               /\ velocity = Repeat("0.0", NUM_JOINTS)
       /\ fn \in { "encode_position_velocity_impedance_command",
                   "NfuUdp.send_joint_angles" } \/ mode = "off"
       /\ fn = "encode_position_velocity_impedance_command"
            => mode \in { "low", "high" }
       /\ call = [ fn |-> fn, pc |-> "called", position |-> position,
                   velocity |-> velocity, mode |-> mode,
                   packed |-> << >>, frame |-> << >> ]

Encoded(packed, frame) ==
  /\ call' = [ call EXCEPT !.pc = "returned", !.packed = packed, !.frame = frame ]
  /\ UNCHANGED << pause, running, trained, menu, mtVars, tacVars, sel, nfu, vie >>

\* packer.pack(...) raises struct.error unless it is given one argument for
\* every field of its format: the three header fields and n floats
PackAccepts(n, payload) == Len(payload) = n

\* the call ends with the error of pack, and no frame
PackRaises ==
  /\ call' = [ call EXCEPT !.pc = "raised" ]
  /\ UNCHANGED << pause, running, trained, menu, mtVars, tacVars, sel, nfu, vie >>

encode_position_velocity_command ==
  /\ call.fn = "encode_position_velocity_command" /\ call.pc = "called"
  /\ IF PackAccepts(2 * NUM_JOINTS, call.position \o call.velocity)
     THEN LET packed == PackPV(call.position, call.velocity)
          IN Encoded(packed, encode_checksum(packed))
     ELSE PackRaises

encode_position_velocity_impedance_command ==
  /\ call.fn = "encode_position_velocity_impedance_command" /\ call.pc = "called"
  /\ LET packed == PackPVI(call.position, call.velocity,
                           IF call.mode = "low" THEN stiffness_low
                           ELSE stiffness_high)
     IN Encoded(packed, encode_checksum(packed))

encode_impedance_reset ==
  /\ call.fn = "encode_impedance_reset" /\ call.pc = "called"
  /\ LET packed == PackPVI(call.position, call.velocity, magic_impedance)
     IN Encoded(packed, encode_checksum(packed))

encode_cmd_state_limb_idle ==
  /\ call.fn = "encode_cmd_state_limb_idle" /\ call.pc = "called"
  /\ Encoded(PackIdle, encode_checksum(PackIdle))

encode_cmd_state_limb_soft_reset ==
  /\ call.fn = "encode_cmd_state_limb_soft_reset" /\ call.pc = "called"
  /\ Encoded(PackSoftReset, encode_checksum(PackSoftReset))

\* the frame of NfuUdp.send_joint_angles: msg_bytes + checksum
NfuUdpJointFrame ==
  /\ call.fn = "NfuUdp.send_joint_angles" /\ call.pc = "called"
  /\ LET packed == NfuUdpPack(call.mode, call.position, call.velocity)
     IN Encoded(packed, packed \o << SumBytes(packed) % 256 >>)

NfuUdpSetLimbIdle ==
  /\ call.fn = "NfuUdp.set_limb_idle" /\ call.pc = "called"
  /\ Encoded(<< >>, NfuUdpIdleFrame)

NfuUdpSetLimbSoftReset ==
  /\ call.fn = "NfuUdp.set_limb_soft_reset" /\ call.pc = "called"
  /\ Encoded(<< >>, NfuUdpSoftResetFrame)

NextCodec ==
  \/ encode_position_velocity_command
  \/ encode_position_velocity_impedance_command
  \/ encode_impedance_reset
  \/ encode_cmd_state_limb_idle
  \/ encode_cmd_state_limb_soft_reset
  \/ NfuUdpJointFrame
  \/ NfuUdpSetLimbIdle
  \/ NfuUdpSetLimbSoftReset

SpecCodec == InitCodec /\ [][NextCodec]_vars

\* a call of an encoder has returned its frame
FrameEncoded == call.fn \in Encoders /\ call.pc = "returned"

\* the frame is literal in the code, not built by appending a checksum
HardCoded == call.fn \in { "NfuUdp.set_limb_idle", "NfuUdp.set_limb_soft_reset" }

RECURSIVE SumOfFirst(_, _)
\* the sum of the first n bytes of a frame
SumOfFirst(frame, n) ==
  IF n = 0 THEN 0
  ELSE IF n = 1 THEN frame[1]
  ELSE SumOfFirst(frame, n \div 2)
         + SumOfFirst([ k \in 1..(n - n \div 2) |-> frame[k + n \div 2] ],
                      n - n \div 2)

\* C16: in every frame produced by the encoders and in the hard-coded idle and
\* soft-reset frames of NfuUdp the last byte equals the sum of all preceding
\* bytes modulo 256, and an encoder appends exactly one byte to the
\* unchecksummed frame.
C16_ChecksumByte ==
  FrameEncoded
    => /\ Len(call.frame) >= 1
       /\ call.frame[Len(call.frame)]
            = SumOfFirst(call.frame, Len(call.frame) - 1) % 256
       /\ call.frame[Len(call.frame)] \in 0..255
       /\ ~HardCoded
            => /\ Len(call.frame) = Len(call.packed) + 1
               /\ SubSeq(call.frame, 1, Len(call.packed)) = call.packed

\* a position-velocity frame whose byte sum exceeds one byte
C16_Witness ==
  /\ FrameEncoded
  /\ call.fn = "encode_position_velocity_command"
  /\ SumOfFirst(call.frame, Len(call.frame) - 1) > 255

\* the length field of a frame, read as a little-endian unsigned 16-bit number
LengthField(frame) == frame[1] + 256 * frame[2]

\* C17: in every encoded frame the little-endian u16 length field equals the
\* total frame length in bytes minus 2; the position-velocity frame carries
\* length 219, msg_type 5, msg_id 1 and 2 x 27 float32, the
\* position-velocity-impedance frame length 327, msg_type 5, msg_id 8 and
\* 3 x 27 float32, and the idle and soft-reset frames length 3.
C17_LengthField ==
  FrameEncoded
    => /\ LengthField(call.frame) = Len(call.frame) - 2
       /\ call.fn = "encode_position_velocity_command"
            => /\ LengthField(call.frame) = 219
               /\ call.frame[3] = 5 /\ call.frame[4] = 1
               /\ Len(call.frame) = 4 + 4 * (2 * 27) + 1
               /\ SubSeq(call.frame, 5, Len(call.frame) - 1)
                    = FloatsBytes(call.position \o call.velocity)
       /\ call.fn \in { "encode_position_velocity_impedance_command",
                        "encode_impedance_reset" }
            => /\ LengthField(call.frame) = 327
               /\ call.frame[3] = 5 /\ call.frame[4] = 8
               /\ Len(call.frame) = 4 + 4 * (3 * 27) + 1
       /\ call.fn \in { "encode_cmd_state_limb_idle",
                        "encode_cmd_state_limb_soft_reset",
                        "NfuUdp.set_limb_idle", "NfuUdp.set_limb_soft_reset" }
            => LengthField(call.frame) = 3

\* a position-velocity-impedance frame, whose length needs both bytes of the
\* field
C17_Witness ==
  /\ FrameEncoded
  /\ call.fn = "encode_position_velocity_impedance_command"
  /\ call.frame[2] = 1

\* ---------------------------------------------------------------------------
\* parse_heartbeat on its own
\* ---------------------------------------------------------------------------

\* class BOOTSTATE(AutoNumber): the members in order, numbered from 0
BOOTSTATE ==
  << "BOOTSTATE_UNKNOWN", "BOOTSTATE_INIT_REQ", "BOOTSTATE_INIT_ACK",
     "BOOTSTATE_NODELIST_REQ", "BOOTSTATE_NODELIST_ACK",
     "BOOTSTATE_NOS_DIAG_REQ", "BOOTSTATE_NOS_DIAG_ACK",
     "BOOTSTATE_PERCEPT_REQ", "BOOTSTATE_PERCEPT_ACK",
     "BOOTSTATE_COMMAND_REQ", "BOOTSTATE_COMMAND_ACK", "BOOTSTATE_UP",
     "BOOTSTATE_IDLE_REQ", "BOOTSTATE_IDLE_ACK", "BOOTSTATE_ERR",
     "BOOTSTATE_DOWN" >>

\* class LcSwState(IntEnum): the value and the name of each member
LcSwState ==
  { << 0, "SWSTATE_INIT" >>, << 1, "SWSTATE_PRG" >>, << 2, "SWSTATE_FS" >>,
    << 3, "SWSTATE_NOS_CONTROL_STIMULATION" >>, << 4, "SWSTATE_NOS_IDLE" >>,
    << 5, "SWSTATE_NOS_SLEEP" >>, << 6, "SWSTATE_NOS_CONFIGURATION" >>,
    << 7, "SWSTATE_NOS_HOMING" >>, << 8, "SWSTATE_NOS_DATA_ACQUISITION" >>,
    << 9, "SWSTATE_NOS_DIAGNOSTICS" >>, << 15, "SWSTATE_UNK" >> }

\* the members of the two enumerations as (value, name) pairs
BootMembers == { << k - 1, BOOTSTATE[k] >> : k \in 1..Len(BOOTSTATE) }

\* str(member) of an enumeration of the interpreter the code is written for
\* (Thread.isAlive, open_nfu.py:137, exists up to Python 3.8): 'Class.NAME'
EnumStr(cls, name) == << cls, ".", name >>

\* an except clause that does not catch the failed lookup
OnValueError_Uncaught(marker, id) == [ raised |-> "ValueError", text |-> << >> ]

\* except ValueError: '<marker>={}'.format(id)
OnValueError(marker, id) == [ raised |-> "none", text |-> << marker >> \o Str(id) ]

\* try: str(Enum(id)).split('.')[1]  except ValueError: ...
EnumName(cls, members, id, marker, shown) ==
  IF \E mem \in members : mem[1] = id
  THEN LET mem == CHOOSE mm \in members : mm[1] = id
       IN [ raised |-> "none", text |-> Split(EnumStr(cls, mem[2]), ".")[2] ]
  ELSE OnValueError(marker, shown)

\* msg_bytes[from:to].view(np.float32)[0]
Float32At(msg, from, to) ==
  LET part == SubSeq(msg, from + 1, IF to < Len(msg) THEN to ELSE Len(msg))
  IN IF Len(part) = 0 THEN [ raised |-> "IndexError", value |-> << >> ]
     ELSE IF Len(part) % 4 # 0 THEN [ raised |-> "ValueError", value |-> << >> ]
     ELSE [ raised |-> "none", value |-> SubSeq(part, 1, 4) ]

\* the first error among the steps of a call, in order
FirstRaised(steps) ==
  IF \A k \in 1..Len(steps) : steps[k] = "none" THEN "none"
  ELSE steps[Least({ k \in 1..Len(steps) : steps[k] # "none" })]

\* parse_heartbeat(msg_bytes) of the bytes after the three header bytes
parse_heartbeat(msg) ==
  IF Len(msg) < 1 THEN [ raised |-> "IndexError", status |-> << >> ]
  ELSE
  LET nfu_state_id == msg[1]
      nfu_state == EnumName("BOOTSTATE", BootMembers, nfu_state_id,
                            "NFUSTATE_ENUM_ERROR=", nfu_state_id)
  IN IF nfu_state.raised # "none" THEN [ raised |-> nfu_state.raised, status |-> << >> ]
     ELSE IF Len(msg) < 2 THEN [ raised |-> "IndexError", status |-> << >> ]
     ELSE
     LET lc_state == EnumName("LcSwState", LcSwState, msg[2],
                              "LCSTATE_ENUM_ERROR=", nfu_state_id)
         v == Float32At(msg, 9, 13)
         c == Float32At(msg, 13, 17)
         a == Float32At(msg, 17, 21)
         raised == FirstRaised(<< lc_state.raised, v.raised, c.raised, a.raised >>)
     IN IF raised # "none" THEN [ raised |-> raised, status |-> << >> ]
        ELSE [ raised |-> "none",
               status |-> [ nfu_state |-> nfu_state.text,
                            lc_software_state |-> lc_state.text,
                            lmc_software_state |->
                              SubSeq(msg, 3, IF Len(msg) < 9 THEN Len(msg) ELSE 9),
                            bus_voltage |-> v.value,
                            nfu_ms_per_CMDDOM |-> c.value,
                            nfu_ms_per_ACTUATEMPL |-> a.value ] ]

\* bytes of a heartbeat after the two state bytes: seven module states and
\* three floats
HeartbeatTail ==
  << 4, 4, 4, 4, 4, 4, 4 >> \o Float32("20.0") \o Float32("1.0") \o Float32("4.0")

\* the heartbeats given to the parser: every boot-state and module-state
\* byte at full length, and messages cut short
Heartbeats ==
  { << b, l >> \o HeartbeatTail : b \in 0..255, l \in 0..255 }
    \cup { SubSeq(<< 11, 4 >> \o HeartbeatTail, 1, n) : n \in { 0, 1, 9, 12, 20 } }

InitHeartbeat ==
  /\ pause = FALSE
  /\ running = NoRun
  /\ trained = ElbowOnly
  /\ menu = [ mt |-> {}, tac1 |-> {}, tac3 |-> {}, stall |-> FALSE,
              runs |-> MaxTasks ]
  /\ mt = MtInit
  /\ mtTasks = [ id \in 1..MaxTasks |-> MtNoFrame ]
  /\ mtFiles = << >>
  /\ tac = TacInit
  /\ tacTasks = [ id \in 1..MaxTasks |-> TacNoFrame ]
  /\ tacFiles = << >>
  /\ sel = SelIdle
  /\ nfu = NoSink
  /\ vie = NoScenario
  /\ \E msg \in Heartbeats :
       call = [ fn |-> "parse_heartbeat", pc |-> "called", msg |-> msg,
                raised |-> "none", status |-> << >> ]

ParseHeartbeat ==
  /\ call.fn = "parse_heartbeat" /\ call.pc = "called"
  /\ LET r == parse_heartbeat(call.msg)
     IN call' = [ call EXCEPT !.pc = "returned", !.raised = r.raised,
                              !.status = r.status ]
  /\ UNCHANGED << pause, running, trained, menu, mtVars, tacVars, sel, nfu, vie >>

NextHeartbeat == ParseHeartbeat

SpecHeartbeat == InitHeartbeat /\ [][NextHeartbeat]_vars

\* the length of a heartbeat after its header
FullLength == 21

\* C18: for every value 0..255 of the boot-state byte and of the module-state
\* byte of a full-length heartbeat parse_heartbeat returns a status and does
\* not raise; a byte outside the known enumeration yields a string that
\* carries an ENUM_ERROR marker and a byte inside it the member's name.
C18_HeartbeatNeverRaises ==
  (call.fn = "parse_heartbeat" /\ call.pc = "returned" /\ Len(call.msg) = FullLength)
    => /\ call.raised = "none"
       /\ IF call.msg[1] \in 0..15
          THEN call.status.nfu_state = << BOOTSTATE[call.msg[1] + 1] >>
          ELSE call.status.nfu_state[1] = "NFUSTATE_ENUM_ERROR="
       /\ IF call.msg[2] \in (0..9) \cup { 15 }
          THEN \E mem \in LcSwState :
                 mem[1] = call.msg[2] /\ call.status.lc_software_state = << mem[2] >>
          ELSE call.status.lc_software_state[1] = "LCSTATE_ENUM_ERROR="

\* a full-length heartbeat with boot-state byte 255 and an unknown
\* module-state byte was parsed
C18_Witness ==
  /\ call.fn = "parse_heartbeat" /\ call.pc = "returned"
  /\ Len(call.msg) = FullLength
  /\ call.msg[1] = 255 /\ call.msg[2] = 12
  /\ call.status.nfu_state = << "NFUSTATE_ENUM_ERROR=", "2", "5", "5" >>

\* ---------------------------------------------------------------------------
\* The limb sinks and their receive threads: NfuUdp with its own socket
\* (open_nfu.py) and NfuSink over a Udp transport (open_nfu_sink.py,
\* udp_comms.py)
\* ---------------------------------------------------------------------------

\* most receive events (datagrams and timeouts) of a behaviour
MaxEvents == 3

\* most calls of send_joint_angles of a behaviour
MaxSends == 2

UDPMSGID_NACK == 100

UDPMSGID_PERCEPTDATA == 200

UDPMSGID_HEARTBEATV2 == 203

\* deque([], maxlen=15)
BatteryMaxLen == 15

\* get_user_config_var('MPL.shutdown_voltage', 19.0)
shutdown_voltage == 19

\* the number a float32 of a heartbeat stands for
Float32Value(bytes) ==
  CASE bytes = Float32("0.0") -> 0
    [] bytes = Float32("1.0") -> 1
    [] bytes = Float32("4.0") -> 4
    [] bytes = Float32("20.0") -> 20
    [] bytes = Float32("40.0") -> 40

\* mpl_status_default / default_status_structure
default_status_structure ==
  [ nfu_state |-> << "NULL" >>, lc_software_state |-> << "NULL" >>,
    lmc_software_state |-> << 0, 0, 0, 0, 0, 0, 0 >>,
    bus_voltage |-> Float32("0.0"),
    nfu_ms_per_CMDDOM |-> Float32("0.0"),
    nfu_ms_per_ACTUATEMPL |-> Float32("0.0") ]

\* percepts and position['last_percept'] before any percept frame
NonePercept == 0

\* a heartbeat datagram: length, message id and the heartbeat bytes
HeartbeatDatagram(boot, lc, volts) ==
  PackU16(22) \o << UDPMSGID_HEARTBEATV2, boot, lc >>
    \o << 4, 4, 4, 4, 4, 4, 4 >> \o Float32(volts) \o Float32("1.0") \o Float32("4.0")

\* a percept datagram; the percepts it holds are named by its last byte
PerceptDatagram(id) == PackU16(2) \o << UDPMSGID_PERCEPTDATA, id >>

\* the datagrams the limb may send: heartbeats with a good, a critical and
\* no bus voltage, a heartbeat cut after its header, percepts, a message
\* with another id and a message shorter than a header
Datagrams ==
  { HeartbeatDatagram(11, 4, "20.0"), HeartbeatDatagram(255, 4, "20.0"),
    HeartbeatDatagram(11, 4, "4.0"), HeartbeatDatagram(11, 4, "0.0"),
    PackU16(1) \o << UDPMSGID_HEARTBEATV2 >>,
    PerceptDatagram(1), PerceptDatagram(2),
    PackU16(1) \o << UDPMSGID_NACK >>,
    << 1, 0 >> }

\* mpl.extract_percepts.extract(raw_chars)
extract(data) == data[Len(data)]

\* DataSink.__init__: no data seen yet
DataSinkInit == [ active_connection |-> FALSE, last_percept |-> NonePercept ]

\* the handlers the Udp transport of a sink calls: mpl/open_nfu/open_nfu_sink.py
\* subscribes parse_messages with add_message_handler in __init__,
\* mpl/open_nfu_sink.py assigns it to the attribute onmessage in connect(),
\* which Udp.run never reads
Subscribed == << "parse_messages" >>

OnMessageOnly == << >>

\* a sink after its construction and connect(); mpl_enums tells whether the
\* package mpl provides NfuUdpMsgId, BOOTSTATE and LcSwState, which NfuUdp
\* reads from it: mpl/__init__.py defines only the joints, NfuSink reads the
\* enumerations from open_nfu_protocol
SinkInit(kind, check, enums, handlers) ==
  [ kind |-> kind,
    mpl_enums |-> enums,
    power |-> "on",
    thread |-> "alive",
    mpl_connection_check |-> check,
    active_connection |-> DataSinkInit.active_connection,
    is_data_received |-> FALSE,
    is_connected |-> TRUE,
    message_handlers |-> handlers,
    mpl_status |-> default_status_structure,
    battery_samples |-> << >>,
    percepts |-> NonePercept,
    last_percept |-> DataSinkInit.last_percept,
    events |-> 0,
    calls |-> 0,
    joint_frames |-> 0,
    reset_frames |-> 0,
    link |-> "unknown",
    decoded |-> << >>,
    received |-> << >>,
    trace |-> << >> ]

\* deque.append with maxlen
DequeAppend(q, x) ==
  IF Len(q) < BatteryMaxLen THEN Append(q, x) ELSE Append(Tail(q), x)

RECURSIVE SumSeq(_)
SumSeq(q) == IF Len(q) = 0 THEN 0 ELSE Head(q) + SumSeq(Tail(q))

\* v_battery != 0.0 and v_battery < self.shutdown_voltage, with v_battery the
\* mean of the samples
Critical(samples) ==
  SumSeq(samples) # 0 /\ SumSeq(samples) < shutdown_voltage * Len(samples)

\* set_limb_soft_reset and send_udp_command: the frame goes out on the socket
set_limb_soft_reset(n) ==
  [ n EXCEPT !.reset_frames = @ + 1, !.trace = Append(@, "soft_reset") ]

\* utilities.sys_cmd.shutdown(): the system powers off
shutdown(n) ==
  [ n EXCEPT !.power = "off", !.thread = "dead", !.trace = Append(@, "shutdown") ]

\* the shutdown procedure without the command to the limb
LimbShutdown_NoReset(n) == shutdown(n)

\* `self.set_limb_soft_reset()` and then `shutdown()`
LimbShutdown(n) == shutdown(set_limb_soft_reset(n))

\* the heartbeat branch of NfuUdp.message_handler and NfuSink.parse_messages:
\* decode, store, average the bus voltage, shut down when it is critical; an
\* error of the decoder is caught nowhere and ends the receive thread
OnHeartbeat(n, data) ==
  LET r == parse_heartbeat(SubSeq(data, 4, Len(data)))
  IN IF r.raised # "none" THEN [ n EXCEPT !.thread = "dead" ]
     ELSE LET samples == DequeAppend(n.battery_samples,
                                     Float32Value(r.status.bus_voltage))
              stored == [ n EXCEPT !.mpl_status = r.status,
                                   !.battery_samples = samples,
                                   !.decoded = data ]
          IN IF Critical(samples) THEN LimbShutdown(stored) ELSE stored

\* the percept branch
OnPercept(n, data) ==
  [ n EXCEPT !.percepts = extract(data), !.last_percept = extract(data),
             !.decoded = data ]

\* the dispatch on the message id, after the length test
Dispatch(n, data) ==
  IF Len(data) < 3 THEN n
  ELSE IF data[3] = UDPMSGID_HEARTBEATV2 THEN OnHeartbeat(n, data)
  ELSE IF data[3] = UDPMSGID_PERCEPTDATA THEN OnPercept(n, data)
  ELSE n

\* NfuSink.parse_messages
parse_messages(n, data) == Dispatch(n, data)

\* the dispatch of NfuUdp.message_handler: the first look at
\* mpl.NfuUdpMsgId ends the receive thread when the package lacks it
NfuUdpDispatch(n, data) ==
  IF Len(data) < 3 THEN n
  ELSE IF ~n.mpl_enums THEN [ n EXCEPT !.thread = "dead" ]
  ELSE Dispatch(n, data)

RECURSIVE CallHandlers(_, _, _)
\* for message_handler in self.__message_handlers: message_handler(data_bytes)
CallHandlers(handlers, n, data) ==
  IF Len(handlers) = 0 \/ n.thread = "dead" THEN n
  ELSE CallHandlers(Tail(handlers), parse_messages(n, data), data)

Receiving(kind) ==
  /\ nfu.kind = kind /\ nfu.power = "on" /\ nfu.thread = "alive"
  /\ nfu.events < MaxEvents

EngineIdle ==
  UNCHANGED << pause, running, trained, menu, mtVars, tacVars, sel, call, vie >>

\* one pass of the loop of NfuUdp.message_handler with a datagram
NfuUdpOnDatagram(n, data) ==
  [ NfuUdpDispatch([ n EXCEPT !.active_connection = TRUE ], data)
      EXCEPT !.link = "up", !.received = data ]

\* one pass of the loop of Udp.run with a datagram
UdpOnDatagram(n, data) ==
  [ CallHandlers(n.message_handlers, [ n EXCEPT !.is_data_received = TRUE ], data)
      EXCEPT !.link = "up", !.received = data ]

\* NfuUdp.message_handler: recvfrom returns a datagram
NfuUdpReceive ==
  /\ Receiving("NfuUdp")
  /\ \E data \in Datagrams :
       nfu' = [ NfuUdpOnDatagram(nfu, data) EXCEPT !.events = nfu.events + 1 ]
  /\ EngineIdle

\* NfuUdp.message_handler: recvfrom times out
NfuUdpTimeout ==
  /\ Receiving("NfuUdp")
  /\ nfu' = [ nfu EXCEPT !.active_connection = FALSE,
                         !.mpl_status = default_status_structure,
                         !.events = nfu.events + 1, !.link = "lost",
                         !.decoded = << >>, !.received = << >> ]
  /\ EngineIdle

\* the truth value of self.comm_obj.data_received: data_received is a method
\* of Udp, it is not called, and a bound method is true
DataReceivedAttribute == TRUE

\* `self.mpl_connection_check and self.comm_obj is not None and not
\* self.comm_obj.data_received`, with comm_obj set by connect()
NfuSinkSuppressed(n) ==
  n.mpl_connection_check /\ n.is_connected /\ ~DataReceivedAttribute

\* `not self.active_connection and self.mpl_connection_check`
NfuUdpSuppressed(n) == ~n.active_connection /\ n.mpl_connection_check

Sending(kind) ==
  /\ nfu.kind = kind /\ nfu.power = "on"
  /\ nfu.calls < MaxSends

\* NfuUdp.send_joint_angles
NfuUdpSendJointAngles ==
  /\ Sending("NfuUdp")
  /\ nfu' = [ nfu EXCEPT !.calls = @ + 1,
                         !.joint_frames = IF NfuUdpSuppressed(nfu) THEN @ ELSE @ + 1 ]
  /\ EngineIdle

\* Udp.run: recvfrom returns a datagram
UdpReceive ==
  /\ Receiving("NfuSink")
  /\ \E data \in Datagrams :
       nfu' = [ UdpOnDatagram(nfu, data) EXCEPT !.events = nfu.events + 1 ]
  /\ EngineIdle

\* Udp.run: recvfrom times out; on_connection_lost logs
UdpTimeout ==
  /\ Receiving("NfuSink")
  /\ nfu' = [ nfu EXCEPT !.is_data_received = FALSE,
                         !.events = nfu.events + 1, !.link = "lost",
                         !.decoded = << >>, !.received = << >> ]
  /\ EngineIdle

\* NfuSink.send_joint_angles and Udp.send
NfuSinkSendJointAngles ==
  /\ Sending("NfuSink")
  /\ nfu' = [ nfu EXCEPT !.calls = @ + 1,
                         !.joint_frames = IF NfuSinkSuppressed(nfu) \/ ~nfu.is_connected
                                          THEN @ ELSE @ + 1 ]
  /\ EngineIdle

InitNfu ==
  /\ pause = FALSE
  /\ running = NoRun
  /\ trained = ElbowOnly
  /\ menu = [ mt |-> {}, tac1 |-> {}, tac3 |-> {}, stall |-> FALSE,
              runs |-> MaxTasks ]
  /\ mt = MtInit
  /\ mtTasks = [ id \in 1..MaxTasks |-> MtNoFrame ]
  /\ mtFiles = << >>
  /\ tac = TacInit
  /\ tacTasks = [ id \in 1..MaxTasks |-> TacNoFrame ]
  /\ tacFiles = << >>
  /\ sel = SelIdle
  /\ call = NoCall
  /\ vie = NoScenario
  /\ \E check \in BOOLEAN :
       \/ \E enums \in BOOLEAN : nfu = SinkInit("NfuUdp", check, enums, << >>)
       \/ \E handlers \in { Subscribed, OnMessageOnly } :
            nfu = SinkInit("NfuSink", check, TRUE, handlers)

NextNfu ==
  \/ NfuUdpReceive
  \/ NfuUdpTimeout
  \/ NfuUdpSendJointAngles
  \/ UdpReceive
  \/ UdpTimeout
  \/ NfuSinkSendJointAngles

SpecNfu == InitNfu /\ [][NextNfu]_vars

\* the last receive event was a timeout: the connection is lost
ConnectionLost(n) == n.link = "lost"

\* the connection state the sink keeps
ConnectionState(n) ==
  IF n.kind = "NfuUdp" THEN n.active_connection ELSE n.is_data_received

\* C19: each decoded heartbeat frame replaces the sink's heartbeat status
\* wholesale, and after a receive timeout the connection state is lost and
\* the heartbeat status and the last-known percept values equal their
\* defaults until the next frame is decoded, for NfuUdp and for NfuSink over
\* Udp.
C19_TimeoutRevertsTelemetry ==
  /\ (nfu.kind # "none" /\ nfu.decoded # << >>
        /\ nfu.decoded[3] = UDPMSGID_HEARTBEATV2)
       => nfu.mpl_status = parse_heartbeat(SubSeq(nfu.decoded, 4, Len(nfu.decoded))).status
  /\ (nfu.kind # "none" /\ ConnectionLost(nfu))
       => /\ ~ConnectionState(nfu)
          /\ nfu.mpl_status = default_status_structure
          /\ nfu.percepts = NonePercept
          /\ nfu.last_percept = NonePercept

\* C20: while the connection is lost and the connection check is enabled a
\* call of send_joint_angles transmits no frame, and once a datagram has been
\* received a call transmits a frame, for NfuUdp and for NfuSink.
C20_NoSendWhileLost ==
  [][ (nfu.kind # "none" /\ nfu'.calls = nfu.calls + 1 /\ nfu.mpl_connection_check)
        => /\ ConnectionLost(nfu) => nfu'.joint_frames = nfu.joint_frames
           /\ nfu.link = "up" => nfu'.joint_frames = nfu.joint_frames + 1 ]_vars

\* ---------------------------------------------------------------------------
\* The bus-voltage window of a sink that has been receiving heartbeats
\* ---------------------------------------------------------------------------

\* the bus voltages of a limb whose battery is in order
HealthyVolts == { "20.0", "40.0" }

RECURSIVE Warmed(_, _, _)
\* the sink after k heartbeats of the same bus voltage
Warmed(n, k, volts) ==
  IF k = 0 THEN n
  ELSE LET before == Warmed(n, k - 1, volts)
           data == HeartbeatDatagram(11, 4, volts)
       IN IF n.kind = "NfuUdp" THEN NfuUdpOnDatagram(before, data)
          ELSE UdpOnDatagram(before, data)

\* the sinks that decode heartbeats, with an empty window, a window one short
\* of its length and a full window
InitBattery ==
  /\ pause = FALSE
  /\ running = NoRun
  /\ trained = ElbowOnly
  /\ menu = [ mt |-> {}, tac1 |-> {}, tac3 |-> {}, stall |-> FALSE,
              runs |-> MaxTasks ]
  /\ mt = MtInit
  /\ mtTasks = [ id \in 1..MaxTasks |-> MtNoFrame ]
  /\ mtFiles = << >>
  /\ tac = TacInit
  /\ tacTasks = [ id \in 1..MaxTasks |-> TacNoFrame ]
  /\ tacFiles = << >>
  /\ sel = SelIdle
  /\ call = NoCall
  /\ vie = NoScenario
  /\ \E check \in BOOLEAN, volts \in HealthyVolts,
        k \in { 0, BatteryMaxLen - 1, BatteryMaxLen } :
       \/ nfu = Warmed(SinkInit("NfuUdp", check, TRUE, << >>), k, volts)
       \/ nfu = Warmed(SinkInit("NfuSink", check, TRUE, Subscribed), k, volts)

SpecBattery == InitBattery /\ [][NextNfu]_vars

\* the last n elements of a sequence
LastN(q, n) == IF Len(q) <= n THEN q ELSE SubSeq(q, Len(q) - n + 1, Len(q))

\* the bus voltage of a heartbeat datagram
VoltsOf(data) == Float32Value(SubSeq(data, 13, 16))

\* the step decodes a heartbeat: the receive loop hands the datagram to the
\* heartbeat branch and the decoder returns
DecodesHeartbeat ==
  /\ nfu.kind # "none"
  /\ nfu'.events = nfu.events + 1
  /\ nfu'.received # << >>
  /\ nfu'.decoded = nfu'.received
  /\ nfu'.received[3] = UDPMSGID_HEARTBEATV2

\* the window after the step, from the window before it and the voltage read
WindowAfter == LastN(Append(nfu.battery_samples, VoltsOf(nfu'.received)), BatteryMaxLen)

\* the moving average is non-zero and below the shutdown threshold
BelowThreshold(w) == SumSeq(w) # 0 /\ SumSeq(w) < shutdown_voltage * Len(w)

\* C21: when a decoded heartbeat makes the moving average of the most recent
\* (at most 15) bus-voltage samples non-zero and below the shutdown threshold,
\* a soft-reset command is sent to the limb before shutdown is initiated, and
\* heartbeat processing initiates shutdown in no other case.
C21_ResetThenShutdown ==
  [][ /\ (DecodesHeartbeat /\ BelowThreshold(WindowAfter))
           => /\ nfu'.power = "off"
              /\ nfu'.trace = nfu.trace \o << "soft_reset", "shutdown" >>
              /\ nfu'.reset_frames = nfu.reset_frames + 1
      /\ (nfu.kind # "none" /\ nfu'.trace # nfu.trace)
           => DecodesHeartbeat /\ BelowThreshold(WindowAfter) ]_vars

\* a full window of 20 V samples took a 4 V sample and the sink shut down
C21_Witness ==
  /\ nfu.kind # "none"
  /\ nfu.power = "off"
  /\ Len(nfu.battery_samples) = BatteryMaxLen
  /\ nfu.battery_samples[1] = 20
  /\ nfu.battery_samples[BatteryMaxLen] = 4
  /\ nfu.events = 1
  /\ nfu.trace = << "soft_reset", "shutdown" >>

\* a datagram too short for its message type: no message id, or a heartbeat
\* with fewer payload bytes than the heartbeat structure has
TooShort(data) ==
  \/ Len(data) < 3
  \/ data[3] = UDPMSGID_HEARTBEATV2 /\ Len(data) - 3 < FullLength

\* C29: every received datagram that is too short for its message type (fewer
\* than 3 bytes, or a heartbeat with fewer than 21 payload bytes after the
\* 3-byte header) is logged and dropped: it changes no sink state, and the
\* receive loop keeps running and processes later datagrams.
C29_ShortDatagramDropped ==
  [][ (/\ nfu.kind # "none"
       /\ nfu'.events = nfu.events + 1
       /\ nfu'.received # << >>
       /\ TooShort(nfu'.received))
        => /\ nfu'.thread = "alive"
           /\ nfu' = [ nfu EXCEPT !.events = nfu'.events, !.link = "up",
                                   !.received = nfu'.received,
                                   !.active_connection = nfu'.active_connection,
                                   !.is_data_received = nfu'.is_data_received ] ]_vars

\* C30: heartbeat processing does not initiate shutdown when every non-zero
\* bus-voltage sample in the averaging window is at or above the shutdown
\* threshold: 0.0 samples mixed with healthy samples cause no shutdown.
C30_ZeroSamplesIgnored ==
  (nfu.kind # "none" /\ nfu.power = "off")
    => \E i \in 1..Len(nfu.battery_samples) :
         /\ nfu.battery_samples[i] # 0
         /\ nfu.battery_samples[i] < shutdown_voltage

\* ---------------------------------------------------------------------------
\* class_map on its own (pattern_rec/commands.py)
\* ---------------------------------------------------------------------------

\* the first and second parts of the class names offered to class_map
FirstWords ==
  { "No", "Shoulder", "Humeral", "Elbow", "Wrist", "Hand", "Spherical", "Tip" }

SecondWords ==
  { " Movement", " Flexion", " Extension", " Adduction", " Abduction",
    " Internal Rotation", " External Rotation", " Rotate In", " Rotate Out",
    " Flex In", " Extend Out", " Open", " Grasp", "" }

\* the names offered: every name of the table and names that are not in it
ClassNames == { a \o b : a \in FirstWords, b \in SecondWords }

\* the arm motions of class_lookup with their joint, in the order of the table
ArmMotions ==
  << << "Shoulder Flexion", "Shoulder Extension", "SHOULDER_FE" >>,
     << "Shoulder Adduction", "Shoulder Abduction", "SHOULDER_AB_AD" >>,
     << "Humeral Internal Rotation", "Humeral External Rotation", "HUMERAL_ROT" >>,
     << "Elbow Flexion", "Elbow Extension", "ELBOW" >>,
     << "Wrist Rotate In", "Wrist Rotate Out", "WRIST_ROT" >>,
     << "Wrist Adduction", "Wrist Abduction", "WRIST_AB_AD" >>,
     << "Wrist Flex In", "Wrist Extend Out", "WRIST_FE" >> >>

\* the names class_lookup lists
Listed ==
  { "No Movement", "Hand Open" }
    \cup { ArmMotions[k][1] : k \in 1..Len(ArmMotions) }
    \cup { ArmMotions[k][2] : k \in 1..Len(ArmMotions) }

InitClassMap ==
  /\ pause = FALSE
  /\ running = NoRun
  /\ trained = ElbowOnly
  /\ menu = [ mt |-> {}, tac1 |-> {}, tac3 |-> {}, stall |-> FALSE,
              runs |-> MaxTasks ]
  /\ mt = MtInit
  /\ mtTasks = [ id \in 1..MaxTasks |-> MtNoFrame ]
  /\ mtFiles = << >>
  /\ tac = TacInit
  /\ tacTasks = [ id \in 1..MaxTasks |-> TacNoFrame ]
  /\ tacFiles = << >>
  /\ sel = SelIdle
  /\ nfu = NoSink
  /\ vie = NoScenario
  /\ \E name \in ClassNames :
       call = [ fn |-> "class_map", pc |-> "called", class_name |-> name,
                earlier |-> << >> ]

\* class_map(class_name) returns
ClassMapReturns ==
  /\ call.fn = "class_map" /\ call.pc = "called"
  /\ call' = [ fn |-> "class_map", pc |-> "returned",
               class_name |-> call.class_name,
               class_info |-> class_map(call.class_name),
               earlier |-> call.earlier ]
  /\ UNCHANGED << pause, running, trained, menu, mtVars, tacVars, sel, nfu, vie >>

\* the caller asks once more, for the same name or for the opposite motion
ClassMapAgain ==
  /\ call.fn = "class_map" /\ call.pc = "returned" /\ call.earlier = << >>
  /\ \E name \in { call.class_name } \cup Listed :
       call' = [ fn |-> "class_map", pc |-> "called", class_name |-> name,
                 earlier |-> << call.class_name, call.class_info >> ]
  /\ UNCHANGED << pause, running, trained, menu, mtVars, tacVars, sel, nfu, vie >>

NextClassMap == ClassMapReturns \/ ClassMapAgain

SpecClassMap == InitClassMap /\ [][NextClassMap]_vars

\* the two names are the two motions of one joint
Opposite(a, b) ==
  \E k \in 1..Len(ArmMotions) :
    \/ a = ArmMotions[k][1] /\ b = ArmMotions[k][2]
    \/ a = ArmMotions[k][2] /\ b = ArmMotions[k][1]

\* C24: class_map is total and deterministic: each listed arm motion maps to
\* its joint with direction +1 or -1, the two motions of one joint having
\* opposite directions; 'No Movement' maps to no joint with direction 0;
\* 'Hand Open' maps to a grasp motion with direction -1 and no grasp id; every
\* name not in the table is treated as a grasp identifier with direction +1.
C24_ClassMapTable ==
  (call.fn = "class_map" /\ call.pc = "returned")
    => LET name == call.class_name
           info == call.class_info
       IN /\ \A k \in 1..Len(ArmMotions) :
               /\ name = ArmMotions[k][1]
                    => info = [ IsGrasp |-> FALSE, JointId |-> ArmMotions[k][3],
                                Direction |-> 1, GraspId |-> NoneName ]
               /\ name = ArmMotions[k][2]
                    => info = [ IsGrasp |-> FALSE, JointId |-> ArmMotions[k][3],
                                Direction |-> -1, GraspId |-> NoneName ]
          /\ name = "No Movement"
               => info = [ IsGrasp |-> FALSE, JointId |-> NoneName,
                           Direction |-> 0, GraspId |-> NoneName ]
          /\ name = "Hand Open"
               => info = [ IsGrasp |-> TRUE, JointId |-> NoneName,
                           Direction |-> -1, GraspId |-> NoneName ]
          /\ name \notin Listed
               => info = [ IsGrasp |-> TRUE, JointId |-> NoneName,
                           Direction |-> 1, GraspId |-> name ]
          /\ call.earlier # << >>
               => /\ call.earlier[1] = name => call.earlier[2] = info
                  /\ Opposite(call.earlier[1], name)
                       => /\ call.earlier[2].JointId = info.JointId
                          /\ call.earlier[2].Direction = -info.Direction

\* a name that is not in the table came back as a grasp, twice
C24_Witness ==
  /\ call.fn = "class_map" /\ call.pc = "returned"
  /\ call.class_name = "Spherical Grasp"
  /\ call.class_info.GraspId = "Spherical Grasp"
  /\ call.earlier # << >>
  /\ call.earlier[1] = "Spherical Grasp"

\* ---------------------------------------------------------------------------
\* The control loop: Scenario.update (scenarios/__init__.py) driving the Plant
\* and the data sink.  Rates are whole steps per tick: a joint moves by
\* Direction * gain steps in one update, the aperture by 50 * Direction *
\* hand gain percent.
\* ---------------------------------------------------------------------------

\* largest gain and hand gain the speed commands are taken to
MaxGain == 2

\* decision_id = None
NoneDecision == 0

\* JointEnum: the upper-arm joints, by value + 1
JointNames ==
  << "SHOULDER_FE", "SHOULDER_AB_AD", "HUMERAL_ROT", "ELBOW", "WRIST_ROT",
     "WRIST_AB_AD", "WRIST_FE" >>

\* the place of a joint in the joint vector
MplId(name) == CHOOSE i \in 1..Len(JointNames) : JointNames[i] = name

\* Plant limit tables, in steps: those of the assessed joints, one step
\* either side of zero for every other joint
PlantLower ==
  [ i \in 1..NUM_JOINTS |->
      IF i <= Len(JointNames) /\ JointNames[i] \in DOMAIN lower_limit
      THEN lower_limit[JointNames[i]] ELSE -1 ]

PlantUpper ==
  [ i \in 1..NUM_JOINTS |->
      IF i <= Len(JointNames) /\ JointNames[i] \in DOMAIN upper_limit
      THEN upper_limit[JointNames[i]] ELSE 1 ]

\* Plant after construction
PlantInit ==
  [ JointPosition |-> [ i \in 1..NUM_JOINTS |-> 0 ],
    JointVelocity |-> [ i \in 1..NUM_JOINTS |-> 0 ],
    GraspId |-> NoneName,
    GraspPosition |-> GraspLower,
    GraspVelocity |-> 0,
    clamped |-> FALSE ]

\* Plant.new_step: the velocities of the tick start at zero
new_step(p) ==
  [ p EXCEPT !.JointVelocity = [ i \in 1..NUM_JOINTS |-> 0 ],
             !.GraspVelocity = 0 ]

\* Plant.set_joint_velocity(joint_id, rate)
set_joint_velocity(p, joint_id, rate) ==
  IF joint_id = NoneName THEN p
  ELSE [ p EXCEPT !.JointVelocity[MplId(joint_id)] = rate ]

\* Plant.set_grasp_velocity(rate)
set_grasp_velocity(p, rate) == [ p EXCEPT !.GraspVelocity = rate ]

\* integration without limits
Clamp_None(x, lo, hi) == x

\* a value brought into [lo, hi]
Clamp(x, lo, hi) == IF x < lo THEN lo ELSE IF x > hi THEN hi ELSE x

\* the grasp table: the angle of the hand joints for a grasp and an aperture
Roc(grasp_id, aperture) == IF grasp_id = NoneName THEN 0 ELSE aperture \div 50

\* Plant.update: integrate the aperture and the arm joints, set the hand
\* joints from the grasp table, apply the limits
update(p) ==
  LET aperture == Clamp(p.GraspPosition + 50 * p.GraspVelocity, GraspLower, GraspUpper)
      raw == [ i \in 1..NUM_JOINTS |->
                 IF i <= NUM_UPPER_ARM_JOINTS
                 THEN p.JointPosition[i] + p.JointVelocity[i]
                 ELSE Roc(p.GraspId, aperture) ]
      position == [ i \in 1..NUM_JOINTS |-> Clamp(raw[i], PlantLower[i], PlantUpper[i]) ]
  IN [ p EXCEPT !.JointPosition = position,
                !.GraspPosition = aperture,
                !.clamped = (position # raw) ]

\* Scenario.gain / hand_gain with a factor above one, up to the largest gain
GainUp(g) == g + 1

\* Scenario.gain / hand_gain with a factor below one: never below the least
GainDown(g) == IF g - 1 < 1 THEN 1 ELSE g - 1

\* the scenario after setup(): not paused, both gains 1, no tick yet
ScenarioInit ==
  [ loop |-> "run", gain |-> 1, hand_gain |-> 1, plant |-> PlantInit,
    predicted |-> << NoneDecision, "UNTRAINED" >>,
    output |-> [ status |-> "UNTRAINED", decision |-> NoDecision ],
    calls |-> << >>, sent |-> << >> ]

\* output = {'status': 'RUNNING', 'features': None, 'decision': 'None'}
OutputInit == [ status |-> "RUNNING", decision |-> NoDecision ]

\* what SignalClassifier.predict returns: no decision with its status, or the
\* place of a class in motion_names
Predictions ==
  { << NoneDecision, status >> : status \in { "UNTRAINED", "NO_DATA", "ERROR" } }
    \cup { << k, "RUNNING" >> : k \in 1..Len(motion_names) }

\* a tick without a decision that resets the velocities all the same
SkipMotion_Stepping(v, output) ==
  [ v EXCEPT !.output = output, !.plant = new_step(v.plant),
             !.calls = << "new_step" >>, !.sent = << >> ]

\* `if decision_id is None: return output`
SkipMotion(v, output) ==
  [ v EXCEPT !.output = output, !.calls = << >>, !.sent = << >> ]

\* a rate that takes the arm gain for the hand as well
Rate_ArmGainOnly(v, class_info) == class_info.Direction * v.gain

\* class_info['Direction'] * self.__hand_gain_value for the hand,
\* class_info['Direction'] * self.__gain_value for the arm
Rate(v, class_info) ==
  IF class_info.IsGrasp THEN class_info.Direction * v.hand_gain
  ELSE class_info.Direction * v.gain

\* the rest of Scenario.update, for the class the classifier decided on
Move(v, paused, output, class_info) ==
  LET stepped == new_step(v.plant)
  IN IF paused
     THEN [ v EXCEPT !.plant = stepped,
                     !.output = [ output EXCEPT !.status = "PAUSED" ],
                     !.calls = << "new_step" >>, !.sent = << >> ]
     ELSE IF class_info.IsGrasp
     THEN LET grasp == IF class_info.GraspId # NoneName
                       THEN [ stepped EXCEPT !.GraspId = class_info.GraspId ]
                       ELSE stepped
              moved == update(set_grasp_velocity(grasp, Rate(v, class_info)))
          IN [ v EXCEPT !.plant = moved, !.output = output,
                        !.calls = << "new_step" >>
                                    \o (IF class_info.GraspId # NoneName
                                        THEN << "GraspId" >> ELSE << >>)
                                    \o << "set_grasp_velocity", "update",
                                          "send_joint_angles" >>,
                        !.sent = moved.JointPosition ]
     ELSE LET moved == update(set_joint_velocity(stepped, class_info.JointId,
                                                 Rate(v, class_info)))
          IN [ v EXCEPT !.plant = moved, !.output = output,
                        !.calls = << "new_step", "set_joint_velocity", "update",
                                     "send_joint_angles" >>,
                        !.sent = moved.JointPosition ]

\* Scenario.update with what predict returned
Tick(v, paused, decision_id, status) ==
  LET output == [ OutputInit EXCEPT !.status = status ]
      looked == [ v EXCEPT !.predicted = << decision_id, status >> ]
  IN IF decision_id = NoneDecision THEN SkipMotion(looked, output)
     ELSE LET class_decision == motion_names[decision_id]
          IN Move(looked, paused, [ output EXCEPT !.decision = class_decision ],
                  class_map(class_decision))

ControlIdle ==
  UNCHANGED << running, trained, menu, mtVars, tacVars, sel, call, nfu >>

\* one pass of the control loop: vie.update()
ScenarioUpdate ==
  /\ vie.loop = "run"
  /\ \E prediction \in Predictions :
       vie' = Tick(vie, pause, prediction[1], prediction[2])
  /\ UNCHANGED pause
  /\ ControlIdle

\* Scenario.command_string, 'Cmd:Pause', between two ticks
ScenarioCmdPause ==
  /\ vie.loop = "run"
  /\ pause' = PauseToggle(pause)
  /\ UNCHANGED vie
  /\ ControlIdle

\* 'Cmd:SpeedUp'
CmdSpeedUp ==
  /\ vie.loop = "run" /\ vie.gain < MaxGain
  /\ vie' = [ vie EXCEPT !.gain = GainUp(@) ]
  /\ UNCHANGED pause
  /\ ControlIdle

\* 'Cmd:SpeedDown'
CmdSpeedDown ==
  /\ vie.loop = "run"
  /\ vie' = [ vie EXCEPT !.gain = GainDown(@) ]
  /\ UNCHANGED pause
  /\ ControlIdle

\* 'Cmd:HandSpeedUp'
CmdHandSpeedUp ==
  /\ vie.loop = "run" /\ vie.hand_gain < MaxGain
  /\ vie' = [ vie EXCEPT !.hand_gain = GainUp(@) ]
  /\ UNCHANGED pause
  /\ ControlIdle

\* 'Cmd:HandSpeedDown'
CmdHandSpeedDown ==
  /\ vie.loop = "run"
  /\ vie' = [ vie EXCEPT !.hand_gain = GainDown(@) ]
  /\ UNCHANGED pause
  /\ ControlIdle

InitUpdate ==
  /\ pause = FALSE
  /\ running = NoRun
  /\ trained = ElbowWristGrasp
  /\ menu = [ mt |-> {}, tac1 |-> {}, tac3 |-> {}, stall |-> FALSE,
              runs |-> MaxTasks ]
  /\ mt = MtInit
  /\ mtTasks = [ id \in 1..MaxTasks |-> MtNoFrame ]
  /\ mtFiles = << >>
  /\ tac = TacInit
  /\ tacTasks = [ id \in 1..MaxTasks |-> TacNoFrame ]
  /\ tacFiles = << >>
  /\ sel = SelIdle
  /\ call = NoCall
  /\ nfu = NoSink
  /\ vie = ScenarioInit

NextUpdate ==
  \/ ScenarioUpdate
  \/ ScenarioCmdPause
  \/ CmdSpeedUp
  \/ CmdSpeedDown
  \/ CmdHandSpeedUp
  \/ CmdHandSpeedDown

SpecUpdate == InitUpdate /\ [][NextUpdate]_vars

\* the Plant state the claims speak of: positions, velocities, grasp, aperture
PlantState(p) ==
  << p.JointPosition, p.JointVelocity, p.GraspId, p.GraspPosition, p.GraspVelocity >>

\* a step of the control loop: the commands change the pause flag or a gain
\* and nothing else, a tick leaves the three as they are
TickStep ==
  /\ vie.loop = "run"
  /\ pause' = pause
  /\ vie'.gain = vie.gain
  /\ vie'.hand_gain = vie.hand_gain

\* C22: in a control tick whose classifier decision is the 'no decision'
\* sentinel (decision id None), Scenario.update invokes no Plant operation,
\* transmits no joint command, and still returns a status with decision 'None'.
C22_NoDecisionSkipsMotion ==
  [][ (TickStep /\ vie'.predicted[1] = NoneDecision)
        => /\ vie'.calls = << >>
           /\ vie'.plant = vie.plant
           /\ vie'.sent = << >>
           /\ vie'.output = [ status |-> vie'.predicted[2], decision |-> NoDecision ] ]_vars

\* a tick without a decision after a tick that moved the elbow
C22_Witness ==
  /\ vie.loop = "run"
  /\ vie.predicted = << NoneDecision, "NO_DATA" >>
  /\ vie.output = [ status |-> "NO_DATA", decision |-> NoDecision ]
  /\ vie.plant.JointVelocity[MplId("ELBOW")] = 1
  /\ vie.plant.JointPosition[MplId("ELBOW")] = 2

\* C23: in a control tick in which the pause flag is set, Scenario.update
\* invokes no state-changing Plant operation (no new_step,
\* set_joint_velocity, set_grasp_velocity, grasp id assignment or update), so
\* joint positions, velocities, grasp id and aperture are unchanged, and it
\* still returns a status ('PAUSED').
C23_PausedSkipsPlant ==
  [][ (TickStep /\ pause)
        => /\ vie'.calls = << >>
           /\ PlantState(vie'.plant) = PlantState(vie.plant)
           /\ vie'.output.status = "PAUSED" ]_vars

\* C25: for all joints, after any sequence of control ticks (new_step,
\* set_joint_velocity / set_grasp_velocity, update) with any decisions and
\* gains, lowerLimit[i] <= position[i] <= upperLimit[i], and the joint vector
\* length stays equal to the configured joint count.
C25_WithinLimits ==
  vie.loop = "run"
    => /\ Len(vie.plant.JointPosition) = NUM_JOINTS
       /\ Len(vie.plant.JointVelocity) = NUM_JOINTS
       /\ \A i \in 1..NUM_JOINTS :
            /\ PlantLower[i] <= vie.plant.JointPosition[i]
            /\ vie.plant.JointPosition[i] <= PlantUpper[i]

\* the elbow was driven past its upper limit at gain 2 and stopped there,
\* and the hand closed past the limit of its joints
C25_Witness ==
  /\ vie.loop = "run"
  /\ vie.plant.clamped
  /\ vie.plant.JointVelocity[MplId("ELBOW")] = 2
  /\ vie.plant.JointPosition[MplId("ELBOW")] = PlantUpper[MplId("ELBOW")]
  /\ vie.plant.GraspPosition = GraspUpper
  /\ vie.plant.JointPosition[NUM_JOINTS] = PlantUpper[NUM_JOINTS]
  /\ vie.sent = vie.plant.JointPosition

\* ---------------------------------------------------------------------------
\* A joint command encoded and decoded again: the encoders of
\* open_nfu_protocol.py and the receiver of utilities/mpl_udp_to_keyboard.py
\* ---------------------------------------------------------------------------

\* the values that single precision holds exactly
SinglePrecision == { "0.0", "1.0", "-1.0", "0.5", "4.0", "20.0", "40.0" }

\* struct.unpack of an 'f': the double that equals the single-precision number
Float32Decode(bytes) ==
  CASE bytes = Float32("0.1") -> "0.10000000149011612"
    [] bytes = Float32("15.6288") -> "15.628800392150879"
    [] OTHER -> CHOOSE v \in SinglePrecision : Float32(v) = bytes

\* struct.unpack('HBB<n>fB', bytes): length, type, id, n floats, checksum
Unpack(n, bytes) ==
  << bytes[1] + 256 * bytes[2], bytes[3], bytes[4] >>
    \o [ k \in 1..n |-> Float32Decode(SubSeq(bytes, 4 * k + 1, 4 * k + 4)) ]
    \o << bytes[Len(bytes)] >>

\* a decoder that takes the floats one place late
Angles_Shifted(values) == SubSeq(values, 5, 4 + NUM_JOINTS)

\* angles = values[3:30]
Angles(values) == SubSeq(values, 4, 3 + NUM_JOINTS)

\* velocity = values[30:57]
Velocities(values) == SubSeq(values, 4 + NUM_JOINTS, 3 + 2 * NUM_JOINTS)

\* the values of the joint commands encoded
CommandFloats == { "0.0", "1.0", "-1.0", "0.5", "0.1" }

CommandVectors ==
  { Repeat(v, NUM_JOINTS) : v \in CommandFloats }
    \cup { [ k \in 1..NUM_JOINTS |-> IF k = j THEN v ELSE "0.0" ] :
             j \in { 1, NUM_UPPER_ARM_JOINTS, NUM_JOINTS },
             v \in CommandFloats \ { "0.0" } }

InitRoundTrip ==
  /\ pause = FALSE
  /\ running = NoRun
  /\ trained = ElbowOnly
  /\ menu = [ mt |-> {}, tac1 |-> {}, tac3 |-> {}, stall |-> FALSE,
              runs |-> MaxTasks ]
  /\ mt = MtInit
  /\ mtTasks = [ id \in 1..MaxTasks |-> MtNoFrame ]
  /\ mtFiles = << >>
  /\ tac = TacInit
  /\ tacTasks = [ id \in 1..MaxTasks |-> TacNoFrame ]
  /\ tacFiles = << >>
  /\ sel = SelIdle
  /\ nfu = NoSink
  /\ vie = NoScenario
  /\ \E position \in CommandVectors,
        velocity \in { Repeat(v, NUM_JOINTS) : v \in CommandFloats } :
       \/ call = [ fn |-> "encode_position_velocity_command", pc |-> "called",
                   position |-> position, velocity |-> velocity, mode |-> "off",
                   packed |-> << >>, frame |-> << >> ]
       \/ \E mode \in { "low", "high" } :
            call = [ fn |-> "encode_position_velocity_impedance_command",
                     pc |-> "called", position |-> position,
                     velocity |-> velocity, mode |-> mode,
                     packed |-> << >>, frame |-> << >> ]

\* mud_to_keyboard(bytes) with the frame as the datagram: the vectors it
\* reads and the key it presses or releases
mud_to_keyboard ==
  /\ call.fn \in { "encode_position_velocity_command",
                    "encode_position_velocity_impedance_command" }
  /\ call.pc = "returned"
  /\ LET length == Len(call.frame)
         values == IF length = 329 THEN Unpack(3 * NUM_JOINTS, call.frame)
                   ELSE IF length = 221 THEN Unpack(2 * NUM_JOINTS, call.frame)
                   ELSE << >>
         angles == IF values = << >> THEN << >> ELSE Angles(values)
         velocity == IF values = << >> THEN Repeat("0.0", NUM_JOINTS)
                     ELSE Velocities(values)
         wrist == velocity[NUM_UPPER_ARM_JOINTS]
     IN call' = [ fn |-> call.fn, pc |-> "decoded", position |-> call.position,
                  velocity |-> call.velocity, mode |-> call.mode,
                  packed |-> call.packed, frame |-> call.frame,
                  angles |-> angles, rates |-> velocity,
                  key |-> IF wrist \in { "1.0", "0.5", "0.10000000149011612" }
                          THEN "right"
                          ELSE IF wrist = "-1.0" THEN "left" ELSE "released" ]
  /\ UNCHANGED << pause, running, trained, menu, mtVars, tacVars, sel, nfu, vie >>

NextRoundTrip ==
  \/ encode_position_velocity_command
  \/ encode_position_velocity_impedance_command
  \/ mud_to_keyboard

SpecRoundTrip == InitRoundTrip /\ [][NextRoundTrip]_vars

\* a position-velocity frame has been decoded
PvDecoded == call.fn = "encode_position_velocity_command" /\ call.pc = "decoded"

\* every value of the vector is a single-precision number
AllSingle(v) == \A k \in 1..Len(v) : v[k] \in SinglePrecision

\* C26: for any valid 27-joint position/velocity vector, decoding the numeric
\* payload of the encoded position-velocity frame returns the same vector
\* (decode(encode(v)) == v).
C26_RoundTrip ==
  PvDecoded => call.angles = call.position /\ call.rates = call.velocity

\* C26 as the code has it: the round trip returns the vector when its values
\* are single-precision numbers, and otherwise the vector of the
\* single-precision numbers nearest to its values.
C26_Amended ==
  PvDecoded
    => /\ Len(call.angles) = NUM_JOINTS /\ Len(call.rates) = NUM_JOINTS
       /\ (AllSingle(call.position) /\ AllSingle(call.velocity))
            => call.angles = call.position /\ call.rates = call.velocity
       /\ \A k \in 1..NUM_JOINTS :
            /\ call.position[k] \in SinglePrecision
                 => call.angles[k] = call.position[k]
            /\ call.position[k] = "0.1"
                 => call.angles[k] = "0.10000000149011612"

\* a vector with one joint at -1.0 and the others at rest came back as sent
C26_Witness ==
  /\ PvDecoded
  /\ call.position[NUM_JOINTS] = "-1.0"
  /\ call.position[1] = "0.0"
  /\ call.velocity[1] = "0.5"
  /\ call.angles = call.position
  /\ call.rates = call.velocity

\* ---------------------------------------------------------------------------
\* The records of the trials
\* ---------------------------------------------------------------------------

\* the samples of the trial record the motion tester is filling
MtSamples == Len(mt.data[Len(mt.data)].classDecision)

\* C27: in a classification trial every tracking poll appends exactly one
\* sample to the current trial record regardless of correctness, so at trial
\* end the number of recorded samples equals num_correct + num_wrong, also
\* when the trial ends by timeout; a wrong decision never decreases or resets
\* num_correct.
C27_EveryPollRecorded ==
  [][ \A id \in 1..MaxTasks :
        /\ MtTracking(id)'
             => /\ Len(mt'.data) > 0
                /\ Len(mt'.data[Len(mt'.data)].classDecision)
                     = mtTasks'[id].num_correct + mtTasks'[id].num_wrong
                /\ Len(mt'.data[Len(mt'.data)].targetClass)
                     = mtTasks'[id].num_correct + mtTasks'[id].num_wrong
        /\ (MtTracking(id) /\ MtTracking(id)')
             => /\ mtTasks'[id].num_correct >= mtTasks[id].num_correct
                /\ mtTasks'[id].num_wrong >= mtTasks[id].num_wrong
                /\ mtTasks'[id].num_wrong > mtTasks[id].num_wrong
                     => mtTasks'[id].num_correct = mtTasks[id].num_correct
                /\ mtTasks'[id].num_correct + mtTasks'[id].num_wrong
                     <= mtTasks[id].num_correct + mtTasks[id].num_wrong + 1 ]_vars

\* a trial that ended by timeout with correct polls, wrong polls and a poll
\* without a decision, all of them recorded
C27_Witness ==
  \E id \in 1..MaxTasks :
    /\ mtTasks[id].state = "pending" /\ mtTasks[id].pc = "trial_end"
    /\ ~mtTasks[id].move_complete
    /\ mtTasks[id].num_correct >= 1
    /\ mtTasks[id].num_wrong >= 2
    /\ MtSamples = mtTasks[id].num_correct + mtTasks[id].num_wrong
    /\ \E k \in 1..MtSamples :
         mt.data[Len(mt.data)].classDecision[k] = MotionIndex(NoMovement)

\* C28: every results file written by a target-achievement run contains
\* exactly the trials performed in that run: save_results writes the whole
\* trial list, so a run begins its trials with an empty trial list, and
\* trial records appended during an earlier run that was cancelled are not
\* among those of a later run's file (no earlier run failed to save).
C28_FileHoldsItsRun ==
  [][ \A id \in 1..MaxTasks :
        ( /\ tacTasks[id].pc = "start" /\ tacTasks'[id].pc = "loop"
          /\ \A j \in 1..MaxTasks : tacTasks[j].state # "failed" )
          => tac'.data = << >> ]_vars

\* ---------------------------------------------------------------------------
\* The order of a control tick
\* ---------------------------------------------------------------------------

\* the calls of a tick on the Plant and the sink, the assignment of the
\* grasp id left out
PlantCalls(calls) == SelectSeq(calls, LAMBDA c : c # "GraspId")

\* class_map over motion_names, by decision id
ClassInfo == [ k \in 1..Len(motion_names) |-> class_map(motion_names[k]) ]

\* the joint velocities of a tick that drives one arm joint one way at gain
\* 1, by decision id (all zero for the hand and for 'No Movement')
UnitVelocity ==
  [ k \in 1..Len(motion_names) |->
      [ i \in 1..NUM_JOINTS |->
          IF /\ ~ClassInfo[k].IsGrasp
             /\ ClassInfo[k].JointId # NoneName
             /\ i = MplId(ClassInfo[k].JointId)
          THEN ClassInfo[k].Direction ELSE 0 ] ]

\* C31: in every control tick that has a decision and is not paused,
\* Scenario.update calls Plant.new_step first, then exactly one of
\* set_joint_velocity (arm or 'No Movement' decision, scaled by the arm gain)
\* or set_grasp_velocity (grasp decision, scaled by the hand gain), then
\* Plant.update, and only then sends the joint vector to the sink; the Plant
\* grasp id is changed only by a grasp decision that carries a grasp id.
C31_TickOrder ==
  [][ /\ (TickStep /\ vie'.predicted[1] # NoneDecision)
           => LET d == ClassInfo[vie'.predicted[1]]
                  after == vie'.plant
              IN /\ ~pause
                      => /\ PlantCalls(vie'.calls)
                              = << "new_step",
                                   IF d.IsGrasp THEN "set_grasp_velocity"
                                   ELSE "set_joint_velocity",
                                   "update", "send_joint_angles" >>
                         /\ d.IsGrasp
                              => /\ after.GraspVelocity = d.Direction * vie.hand_gain
                                 /\ after.JointVelocity = UnitVelocity[vie'.predicted[1]]
                         /\ ~d.IsGrasp
                              => /\ after.GraspVelocity = 0
                                 /\ after.JointVelocity
                                      = [ i \in 1..NUM_JOINTS |->
                                            UnitVelocity[vie'.predicted[1]][i] * vie.gain ]
                         /\ vie'.sent = after.JointPosition
                 /\ after.GraspId # vie.plant.GraspId
                      => /\ d.IsGrasp
                         /\ d.GraspId # NoneName
                         /\ after.GraspId = d.GraspId
      /\ (vie.loop = "run" /\ vie'.predicted[1] = NoneDecision)
           => vie'.plant.GraspId = vie.plant.GraspId
      /\ (vie.loop = "run" /\ ~TickStep)
           => vie'.plant.GraspId = vie.plant.GraspId ]_vars

\* a tick that closed a grasp at hand gain 2 while the arm gain was 1: the
\* grasp id was set between new_step and set_grasp_velocity
C31_Witness ==
  /\ vie.loop = "run" /\ ~pause
  /\ vie.gain = 1 /\ vie.hand_gain = 2
  /\ vie.calls = << "new_step", "GraspId", "set_grasp_velocity", "update",
                    "send_joint_angles" >>
  /\ vie.plant.GraspId = "Spherical Grasp"
  /\ vie.plant.GraspVelocity = 2
  /\ vie.sent = vie.plant.JointPosition

\* ---------------------------------------------------------------------------
\* TrainingData (pattern_rec/training_data.py) under calls from several
\* threads.  The Scenario owns the store; each thread makes one call at a
\* time.  A sample is told from the others by the value handed in as data_.
\* ---------------------------------------------------------------------------

\* threads that call into the store
MaxThreads == 2

\* samples added in one run
MaxSamples == 3

\* motion ids the calls are made with
MotionIds == { 0, 1 }

\* no thread holds the lock
Unlocked == 0

\* a thread outside every call
ThreadIdle ==
  [ pc |-> "idle", motion_id |-> 0, indices |-> << >>, k |-> 0,
    existed |-> {}, returned |-> "none" ]

\* TrainingData.__init__, which ends with reset()
TrainingInit ==
  [ loop |-> "train", lock |-> Unlocked,
    data |-> << >>, id |-> << >>, name |-> << >>, time_stamp |-> << >>,
    imu |-> << >>, num_samples |-> 0, added |-> 0,
    threads |-> [ t \in 1..MaxThreads |-> ThreadIdle ] ]

\* del(list[rev])
RemoveAt(list, rev) == SubSeq(list, 1, rev - 1) \o SubSeq(list, rev + 1, Len(list))

\* the body of reset under the lock
ResetLists(v) ==
  [ v EXCEPT !.data = << >>, !.id = << >>, !.imu = << >>, !.name = << >>,
             !.time_stamp = << >>, !.num_samples = 0 ]

\* indices = [i for i, x in enumerate(self.id) if x == motion_id], as
\* positions from 1, in rising order
RECURSIVE IndicesOf(_, _, _)
IndicesOf(ids, motion_id, i) ==
  IF i > Len(ids) THEN << >>
  ELSE (IF ids[i] = motion_id THEN << i >> ELSE << >>)
         \o IndicesOf(ids, motion_id, i + 1)

\* the samples of a motion id in the store
SamplesOf(v, motion_id) ==
  { v.data[i] : i \in { j \in 1..Len(v.data) : j <= Len(v.id) /\ v.id[j] = motion_id } }

TrainingIdle ==
  /\ UNCHANGED pause
  /\ ControlIdle

\* add_data(data_, id_, name_): the thread reaches `with self.__lock`
TdAddCall(t) ==
  /\ vie.loop = "train"
  /\ vie.threads[t].pc = "idle"
  /\ vie.added < MaxSamples
  /\ \E id_ \in MotionIds :
       vie' = [ vie EXCEPT !.added = @ + 1,
                           !.threads[t] = [ ThreadIdle EXCEPT !.pc = "add_lock",
                                                              !.motion_id = id_,
                                                              !.k = vie.added + 1 ] ]
  /\ TrainingIdle

\* add_data under the lock: one entry on each list
TdAddLocked(t) ==
  /\ vie.loop = "train"
  /\ vie.threads[t].pc = "add_lock"
  /\ vie.lock = Unlocked
  /\ LET th == vie.threads[t] IN
     vie' = [ vie EXCEPT !.time_stamp = Append(@, th.k),
                         !.name = Append(@, th.motion_id),
                         !.id = Append(@, th.motion_id),
                         !.data = Append(@, th.k),
                         !.imu = Append(@, -1),
                         !.num_samples = @ + 1,
                         !.threads[t] = [ ThreadIdle EXCEPT !.returned = "add_data" ] ]
  /\ TrainingIdle

\* reset(): the thread reaches `with self.__lock`
TdResetCall(t) ==
  /\ vie.loop = "train"
  /\ vie.threads[t].pc = "idle"
  /\ vie.num_samples > 0
  /\ vie' = [ vie EXCEPT !.threads[t] = [ ThreadIdle EXCEPT !.pc = "reset_lock",
                                                            !.returned = "reset" ] ]
  /\ TrainingIdle

\* reset under the lock; it returns to its caller, which is clear when the
\* thread came from there
TdResetLocked(t) ==
  /\ vie.loop = "train"
  /\ vie.threads[t].pc = "reset_lock"
  /\ vie.lock = Unlocked
  /\ vie' = [ ResetLists(vie) EXCEPT
                !.threads[t] = [ vie.threads[t] EXCEPT !.pc = "idle" ] ]
  /\ TrainingIdle

\* clear(motion_id): the list of indices is made before the lock is taken
TdClearCall(t) ==
  /\ vie.loop = "train"
  /\ vie.threads[t].pc = "idle"
  /\ vie.num_samples > 0
  /\ \E motion_id \in MotionIds :
       vie' = [ vie EXCEPT !.threads[t] =
                  [ ThreadIdle EXCEPT !.pc = "clear_lock",
                                      !.motion_id = motion_id,
                                      !.indices = IndicesOf(vie.id, motion_id, 1),
                                      !.existed = SamplesOf(vie, motion_id) ] ]
  /\ TrainingIdle

\* clear: `with self.__lock`
TdClearAcquire(t) ==
  /\ vie.loop = "train"
  /\ vie.threads[t].pc = "clear_lock"
  /\ vie.lock = Unlocked
  /\ vie' = [ vie EXCEPT !.lock = t,
                         !.threads[t].pc = "clear_del",
                         !.threads[t].k = Len(vie.threads[t].indices) ]
  /\ TrainingIdle

\* clear: one pass of `for rev in indices[::-1]`; a del past the end of the
\* first list raises IndexError, which leaves the with block and the call
TdClearDelete(t) ==
  /\ vie.loop = "train"
  /\ vie.threads[t].pc = "clear_del"
  /\ LET th == vie.threads[t]
         rev == th.indices[th.k]
     IN IF th.k = 0
        THEN vie' = [ vie EXCEPT !.lock = Unlocked,
                                 !.threads[t].pc = "clear_check" ]
        ELSE IF rev > Len(vie.time_stamp)
        THEN vie' = [ vie EXCEPT !.lock = Unlocked,
                                 !.threads[t].pc = "raised",
                                 !.threads[t].returned = "IndexError" ]
        ELSE vie' = [ vie EXCEPT !.time_stamp = RemoveAt(@, rev),
                                 !.name = RemoveAt(@, rev),
                                 !.id = RemoveAt(@, rev),
                                 !.imu = RemoveAt(@, rev),
                                 !.data = RemoveAt(@, rev),
                                 !.num_samples = @ - 1,
                                 !.threads[t].k = th.k - 1 ]
  /\ TrainingIdle

\* clear: `if self.num_samples == 0: self.reset()`, outside the lock
TdClearCheck(t) ==
  /\ vie.loop = "train"
  /\ vie.threads[t].pc = "clear_check"
  /\ vie' = [ vie EXCEPT !.threads[t].pc =
                           IF vie.num_samples = 0 THEN "reset_lock" ELSE "idle",
                         !.threads[t].returned = "clear" ]
  /\ TrainingIdle

InitTraining ==
  /\ pause = FALSE
  /\ running = NoRun
  /\ trained = ElbowWristGrasp
  /\ menu = [ mt |-> {}, tac1 |-> {}, tac3 |-> {}, stall |-> FALSE,
              runs |-> MaxTasks ]
  /\ mt = MtInit
  /\ mtTasks = [ id \in 1..MaxTasks |-> MtNoFrame ]
  /\ mtFiles = << >>
  /\ tac = TacInit
  /\ tacTasks = [ id \in 1..MaxTasks |-> TacNoFrame ]
  /\ tacFiles = << >>
  /\ sel = SelIdle
  /\ call = NoCall
  /\ nfu = NoSink
  /\ vie = TrainingInit

NextTraining ==
  \E t \in 1..MaxThreads :
    \/ TdAddCall(t)
    \/ TdAddLocked(t)
    \/ TdResetCall(t)
    \/ TdResetLocked(t)
    \/ TdClearCall(t)
    \/ TdClearAcquire(t)
    \/ TdClearDelete(t)
    \/ TdClearCheck(t)

SpecTraining == InitTraining /\ [][NextTraining]_vars

\* the five lists hold one entry per counted sample
ListsAgree(v) ==
  /\ Len(v.data) = v.num_samples
  /\ Len(v.id) = v.num_samples
  /\ Len(v.name) = v.num_samples
  /\ Len(v.time_stamp) = v.num_samples
  /\ Len(v.imu) = v.num_samples

\* thread t comes back from clear in this step
ClearReturns(t) ==
  /\ vie.threads[t].pc \in { "clear_check", "reset_lock" }
  /\ vie'.threads[t].pc = "idle"
  /\ vie'.threads[t].returned = "clear"

\* C32: under any interleaving of TrainingData.add_data, clear and reset
\* calls from concurrent threads, the parallel lists data, id, name,
\* time_stamp and imu all have length num_samples whenever no call is inside
\* its locked section, no call raises, and after clear(m) returns no sample
\* with id m that existed when clear(m) was called remains.
C32_LockedLists ==
  [][ vie.loop = "train"
        => /\ vie'.lock = Unlocked => ListsAgree(vie')
           /\ \A t \in 1..MaxThreads :
                /\ vie'.threads[t].pc # "raised"
                /\ ClearReturns(t)
                     => \A i \in 1..Len(vie'.data) :
                          vie'.data[i] \notin vie.threads[t].existed ]_vars

\* ---------------------------------------------------------------------------
\* The length of a trial.  Time is counted in ticks of the poll interval dt, so
\* a timeout of n ticks is ceil(timeout / dt) = n.
\* ---------------------------------------------------------------------------

\* tracking polls made so far in the trial of a motion-tester task
MtPolls(id) == mtTasks[id].num_correct + mtTasks[id].num_wrong

\* C33: once a trial has entered Tracking it ends (Complete or Timeout)
\* after finitely many polls whatever the classifier and Plant do: with
\* elapsed time advancing by at least the poll interval dt per poll, at most
\* ceil(timeout/dt) + 1 tracking polls are performed.
C33_BoundedPolls ==
  \A id \in 1..MaxTasks :
    /\ MtTracking(id) => MtPolls(id) <= mtTasks[id].timeout + 1
    /\ TacTracking(id) => tacTasks[id].tracked <= tacTasks[id].timeout + 1

\* a classification trial that ran into its timeout without one correct
\* decision: every tick of the timeout was used for a poll
C33_Witness ==
  \E id \in 1..MaxTasks :
    /\ mtTasks[id].state = "pending" /\ mtTasks[id].pc = "trial_end"
    /\ ~mtTasks[id].move_complete
    /\ mtTasks[id].timeout >= 2
    /\ mtTasks[id].num_correct = 0
    /\ MtPolls(id) = mtTasks[id].timeout

\* a target trial that ran into its timeout in the same way
C33_TacTimeout ==
  \E id \in 1..MaxTasks :
    /\ tacTasks[id].state = "pending" /\ tacTasks[id].pc = "trial_end"
    /\ ~tacTasks[id].move_complete
    /\ tacTasks[id].timeout >= 2
    /\ tacTasks[id].tracked = tacTasks[id].timeout

\* a motion-tester trial that waits for the first movement after neutral
MtAwaitsNeutral(id) ==
  /\ mtTasks[id].state = "pending"
  /\ mtTasks[id].pc \in { "await_poll", "await_sleep" }

\* a target-achievement trial that waits for the first movement after neutral
TacAwaitsNeutral(id) == TacInTrial(id) /\ tacTasks[id].start_sequence

\* C34: the per-trial timeout is measured from the end of AwaitNeutral (the
\* first non-neutral decision after neutral): while a trial is in
\* AwaitNeutral its elapsed time stays 0, its correct-count or dwell
\* accumulator stays 0, and the trial cannot end by timeout or by completion.
C34_TimeoutFromNeutral ==
  \A id \in 1..MaxTasks :
    /\ MtAwaitsNeutral(id)
         => /\ mtTasks[id].time_elapsed = 0
            /\ mtTasks[id].num_correct = 0
            /\ ~mtTasks[id].move_complete
    /\ TacAwaitsNeutral(id)
         => /\ tacTasks[id].time_elapsed = 0
            /\ tacTasks[id].time_in_target = 0
            /\ ~tacTasks[id].move_complete
            /\ tacTasks[id].pc # "trial_end"

\* C35: when no valid target value is found for an axis within the bound,
\* target selection stops (it never loops forever, for any limits, error
\* band and current position) and the value it accepts is the nearest valid
\* value found, which lies within [lower limit, upper limit] of the axis: the
\* loop always has a draw to end on, and a value accepted by the fallback
\* lies within the limits and passes the three tests of a valid target.
C35_FallbackValid ==
  /\ sel.pc = "draw"
       => DrawOutcomes(sel.cur, sel.lo, sel.hi, sel.err, TRUE) # {}
  /\ (sel.pc = "done" /\ sel.timed_out)
       => /\ sel.lo <= sel.target /\ sel.target <= sel.hi
          /\ AcceptsTarget(sel.cur, sel.target, sel.lo, sel.hi, sel.err)

\* ---------------------------------------------------------------------------
\* The completion time of a target-achievement trial record
\* ---------------------------------------------------------------------------

\* self.completion_time = -1.0: not completed
NotCompleted == -1

\* the step in which assess_joint of task id stores its trial record
TacRecords(id) ==
  /\ tacTasks[id].state = "pending" /\ tacTasks[id].pc = "trial_end"
  /\ Len(tac'.data) = Len(tac.data) + 1

\* C36: each target-achievement trial record has completion_time equal to
\* the 'not completed' sentinel (-1.0) iff the trial ended by timeout;
\* otherwise completion_time is the non-negative elapsed time at the poll
\* where dwell was satisfied, and a value from a previous trial is never
\* carried over.
C36_CompletionTime ==
  [][ \A id \in 1..MaxTasks :
        /\ TacRecords(id)
             => LET record == tac'.data[Len(tac'.data)]
                    f == tacTasks[id]
                IN /\ record.completion_time = NotCompleted <=> ~f.move_complete
                   /\ f.move_complete
                        => /\ record.completion_time >= 0
                           /\ record.completion_time < f.timeout
                           /\ record.completion_time <= f.time_elapsed
        /\ (TacTracking(id) /\ tacTasks[id].pc = "poll"
              /\ tacTasks'[id].state = "pending")
             => tac'.completion_time
                  = IF tacTasks'[id].move_complete THEN tacTasks[id].time_elapsed
                    ELSE NotCompleted
        /\ (tacTasks[id].pc = "select" /\ tacTasks'[id].pc = "poll_check")
             => tac'.completion_time = NotCompleted ]_vars

\* a run whose first trial was completed after the first tick and whose
\* second trial ran into the timeout
C36_Witness ==
  /\ Len(tac.data) >= 2
  /\ tac.data[1].completion_time >= 1
  /\ tac.data[2].completion_time = NotCompleted

\* ---------------------------------------------------------------------------
\* The trials of a motion-tester run
\* ---------------------------------------------------------------------------

\* the trained classes other than 'No Movement', by their place in
\* motion_names
NonNeutral == { MotionIndex(c) : c \in trained \ { NoMovement } }

\* the step in which the run of task id writes its file
MtSaves(id) ==
  /\ mtTasks[id].state = "pending" /\ mtTasks[id].pc = "save"
  /\ Len(mtFiles') = Len(mtFiles) + 1

\* C37: an uncancelled motion-tester run with R repetitions over K trained
\* non-neutral classes performs exactly R*K trials, visiting all K classes
\* in the same order within each repetition, and creates exactly one trial
\* record per trial before saving.
C37_TrialsOfRun ==
  [][ \A id \in 1..MaxTasks :
        MtSaves(id)
          => LET file == mtFiles'[Len(mtFiles')]
                 ids == file.ClassIdToTest
                 R == mtTasks[id].reps
                 K == Cardinality(NonNeutral)
             IN /\ Len(ids) = R * K
                /\ file.Data = R * K
                /\ Len(mt.data) = R * K
                /\ R > 0 => { ids[n] : n \in 1..K } = NonNeutral
                /\ \A n \in (K + 1)..(R * K) : ids[n] = ids[n - K] ]_vars

\* the file of a run of two repetitions over elbow flexion and extension
C37_Witness ==
  /\ Len(mtFiles) >= 1
  /\ mtFiles[1].Data = 4
  /\ mtFiles[1].ClassIdToTest
       = << MotionIndex("Elbow Flexion"), MotionIndex("Elbow Extension"),
            MotionIndex("Elbow Flexion"), MotionIndex("Elbow Extension") >>

\* ---------------------------------------------------------------------------
\* encode_position_velocity_command with vectors of any length
\* ---------------------------------------------------------------------------

\* the lengths of the vectors given to the encoder
VectorLengths ==
  { 0, 1, NUM_JOINTS - 1, NUM_JOINTS, NUM_JOINTS + 1, 2 * NUM_JOINTS - 1,
    2 * NUM_JOINTS }

InitLengths ==
  /\ pause = FALSE
  /\ running = NoRun
  /\ trained = ElbowOnly
  /\ menu = [ mt |-> {}, tac1 |-> {}, tac3 |-> {}, stall |-> FALSE,
              runs |-> MaxTasks ]
  /\ mt = MtInit
  /\ mtTasks = [ id \in 1..MaxTasks |-> MtNoFrame ]
  /\ mtFiles = << >>
  /\ tac = TacInit
  /\ tacTasks = [ id \in 1..MaxTasks |-> TacNoFrame ]
  /\ tacFiles = << >>
  /\ sel = SelIdle
  /\ nfu = NoSink
  /\ vie = NoScenario
  /\ \E np \in VectorLengths, nv \in VectorLengths, p \in { "0.0", "1.0" },
        v \in { "0.0", "1.0" } :
       call = [ fn |-> "encode_position_velocity_command", pc |-> "called",
                position |-> Repeat(p, np), velocity |-> Repeat(v, nv),
                mode |-> "off", packed |-> << >>, frame |-> << >> ]

NextLengths == encode_position_velocity_command

SpecLengths == InitLengths /\ [][NextLengths]_vars

\* C38: encode_position_velocity_command produces a frame only when
\* position and velocity each have exactly 27 elements; every other
\* combination of lengths (including ones whose total is 54) is rejected
\* with an error and yields no frame.
C38_LengthsChecked ==
  call.fn = "encode_position_velocity_command"
    => /\ call.pc = "returned"
            => Len(call.position) = NUM_JOINTS /\ Len(call.velocity) = NUM_JOINTS
       /\ (call.pc # "called"
             /\ ~(Len(call.position) = NUM_JOINTS /\ Len(call.velocity) = NUM_JOINTS))
            => call.pc = "raised" /\ call.frame = << >>

\* ---------------------------------------------------------------------------
\* The error string of the module-state byte
\* ---------------------------------------------------------------------------

\* C39: when the module-state byte of a full-length heartbeat is outside the
\* known enumeration, the string placed in lc_software_state is the marker
\* followed by the decimal value of that module-state byte.
C39_LcErrorCarriesLcByte ==
  ( /\ call.fn = "parse_heartbeat" /\ call.pc = "returned"
    /\ Len(call.msg) = FullLength
    /\ call.raised = "none"
    /\ ~ \E mem \in LcSwState : mem[1] = call.msg[2] )
    => call.status.lc_software_state
         = << "LCSTATE_ENUM_ERROR=" >> \o Str(call.msg[2])

====
